---- MODULE Spec2Model ----
(***************************************************************************)
(* django-helpdesk: the ticket lifecycle (Ticket.save), the update         *)
(* workflow (views/staff.py update_ticket and the other handlers that      *)
(* save a ticket) and the notification fan-out, as a state machine over    *)
(* the persisted rows.                                                     *)
(*                                                                         *)
(* A nullable column holds None (0): primary keys and timestamps start     *)
(* at 1.  An absent or blank e-mail address is "".  A handler runs at the  *)
(* time `now`, and the clock advances by one with every handler.           *)
(***************************************************************************)
EXTENDS Integers, Sequences, FiniteSets, TLC

\* ------------------------------------------------------------- bounds
\* handlers run in the lifecycle specification (Spec)
MaxClock == 3
\* update_ticket invocations in SpecChange and SpecNotify
MaxUpdates == 1

\* ---------------------------------------------------------- constants
None == 0

OPEN_STATUS == 1
REOPENED_STATUS == 2
RESOLVED_STATUS == 3
CLOSED_STATUS == 4
DUPLICATE_STATUS == 5

\* Ticket.save: "if not self.priority: self.priority = 3"
DEFAULT_PRIORITY == 3

\* request.POST.get('owner', -1): the owner key is not in the request
OWNER_UNSET == -1

Statuses == {OPEN_STATUS, REOPENED_STATUS, RESOLVED_STATUS, CLOSED_STATUS, DUPLICATE_STATUS}

\* Ticket.STATUS_CHOICES / get_status_display
StatusDisplay(s) ==
    CASE s = OPEN_STATUS -> "Open"
      [] s = REOPENED_STATUS -> "Reopened"
      [] s = RESOLVED_STATUS -> "Resolved"
      [] s = CLOSED_STATUS -> "Closed"
      [] s = DUPLICATE_STATUS -> "Duplicate"
      [] OTHER -> ToString(s)

\* the rows of the other tables a ticket points to
Users == {1, 2}
Customers == {1, 2}
Sites == {1}
CustomerProducts == {1}
TicketIds == {1, 2, 3}
QueueIds == {1, 2}

\* Ticket.save(update_fields=None): every column is written
ALL_FIELDS == {"*"}

\* ------------------------------------------------------------- state
VARIABLES
    tickets,        \* Ticket rows: id -> record
    sums,           \* SimpleUserMail rows: email -> customer (None when null)
    followups,      \* FollowUp rows, in insertion order (the id is the index)
    ticketChanges,  \* TicketChange rows
    ticketccs,      \* TicketCC rows, in insertion order
    deps,           \* TicketDependency rows: <<ticket, depends_on>>
    users,          \* User rows with their helpdesk settings: id -> record
    queue,          \* the Queue row of the tickets
    conf,           \* helpdesk_settings
    savedSearches,  \* SavedSearch rows, in insertion order (the id is the index)
    queues,         \* Queue rows as Queue.save writes them, in insertion order
    permissions,    \* the codenames of the auth Permission rows of Queue
    inflight,       \* the requests being handled: what each one holds in memory
    sent,           \* the send_templated_mail calls of the last handler
    now,            \* timezone.now()
    last            \* the last request handled and its outcome

vars == <<tickets, sums, followups, ticketChanges, ticketccs, deps, users,
          queue, conf, savedSearches, queues, permissions, inflight, sent, now,
          last>>

\* the requests that may be handled at the same time, and one that holds
\* nothing in memory
Procs == {1, 2}
Idle == [pc |-> "idle"]
NoneInFlight == inflight = [p \in Procs |-> Idle]

\* ------------------------------------------------------- Ticket.save
\* A variant of lines 830-844 in which closing always stamps `closed` and drops
\* `resolved`: what C2 has to tell apart from the code.
TicketSaveDatesNoElif(self, t) ==
    LET s1 == IF self.status = RESOLVED_STATUS /\ self.resolved = None
                 THEN [self EXCEPT !.resolved = t, !.closed = None]
                 ELSE self
        s2 == IF s1.status \in {CLOSED_STATUS, DUPLICATE_STATUS}
                 THEN [s1 EXCEPT !.closed = t, !.resolved = None]
                 ELSE s1
    IN  s2

\* A variant of lines 830-844 in which reopening clears `closed` only: what C3
\* has to tell apart from the code.
TicketSaveDatesKeepOnReopen(self, t) ==
    IF self.status = RESOLVED_STATUS /\ self.resolved = None
      THEN [self EXCEPT !.resolved = t, !.closed = None]
    ELSE IF self.status \in {CLOSED_STATUS, DUPLICATE_STATUS} /\ self.closed = None
      THEN [self EXCEPT !.closed = t]
    ELSE IF self.status \in {OPEN_STATUS, REOPENED_STATUS} /\ self.closed # None
      THEN [self EXCEPT !.closed = None]
    ELSE self

\* lines 830-844: the resolved and closed dates
TicketSaveDates(self, t) ==
    IF self.status = RESOLVED_STATUS /\ self.resolved = None
      THEN [self EXCEPT !.resolved = t, !.closed = None]
    ELSE IF self.status \in {CLOSED_STATUS, DUPLICATE_STATUS} /\ self.closed = None
      THEN [self EXCEPT !.closed = t]
    ELSE IF self.status \in {OPEN_STATUS, REOPENED_STATUS}
            /\ (self.closed # None \/ self.resolved # None)
      THEN [self EXCEPT !.closed = None, !.resolved = None]
    ELSE self

\* lines 846-849: SimpleUserMail.objects.filter(email=..., customer__isnull=True).update(...)
SumsAfterSave(S, self) ==
    IF self.customer # None /\ self.submitter_email # ""
      THEN [e \in DOMAIN S |->
              IF e = self.submitter_email /\ S[e] = None THEN self.customer ELSE S[e]]
      ELSE S

\* lines 851-855: the ticket takes the customer of a matching SimpleUserMail
TicketSaveCustomer(S, self) ==
    IF self.customer = None /\ self.submitter_email \in DOMAIN S
       /\ S[self.submitter_email] # None
      THEN [self EXCEPT !.customer = S[self.submitter_email]]
      ELSE self

\* lines 824-844: the priority default, the modified date and the status dates
TicketSavePre(self, t) ==
    LET s1 == IF self.priority = 0 THEN [self EXCEPT !.priority = DEFAULT_PRIORITY] ELSE self
        s2 == [s1 EXCEPT !.modified = t]
    IN  TicketSaveDates(s2, t)

\* line 857: super().save(): the columns of update_fields are written, all of
\* them when update_fields is not given
WrittenRow(old, inst, update_fields) ==
    IF update_fields = ALL_FIELDS
      THEN inst
      ELSE [f \in DOMAIN old |-> IF f \in update_fields THEN inst[f] ELSE old[f]]

MergedFields == {"assigned_to", "category", "type", "billing", "customer", "site",
                 "customer_product"}

\* lines 859-868: self.merged_tickets.update(...), from the instance's values
MergedUpdate(T, id, inst) ==
    [m \in DOMAIN T |->
        IF T[m].merged_to = id
          THEN [f \in DOMAIN T[m] |-> IF f \in MergedFields THEN inst[f] ELSE T[m][f]]
          ELSE T[m]]

\* Ticket.save of an existing ticket (lines 814-868): the database after it and
\* the instance the caller goes on with.  db is [tickets, sums].
TicketSave(db, id, self, t, update_fields) ==
    LET pre  == TicketSavePre(self, t)
        S2   == SumsAfterSave(db.sums, pre)
        inst == TicketSaveCustomer(S2, pre)
        T1   == [db.tickets EXCEPT ![id] = WrittenRow(db.tickets[id], inst, update_fields)]
    IN  [tickets |-> MergedUpdate(T1, id, inst), sums |-> S2, self |-> inst]

\* ------------------------------------------------------ displays
\* str(user) / get_username()
UserStr(u) == "user" \o ToString(u)

\* "old_owner if old_owner else _('Unassigned')" and its like
UserOrUnassigned(u) == IF u = None THEN "Unassigned" ELSE UserStr(u)
CustomerOrUnassigned(c) == IF c = None THEN "Unassigned" ELSE "customer" \o ToString(c)
SiteOrUnassigned(c) == IF c = None THEN "Unassigned" ELSE "site" \o ToString(c)
ProductOrUnassigned(c) == IF c = None THEN "Unassigned" ELSE "product" \o ToString(c)

\* date(due_date, 'DATETIME_FORMAT') if due_date else 'Non definie'
DueDateStr(d) == IF d = None THEN "Non definie" ELSE "date" \o ToString(d)

\* Model.objects.get(id=...) inside try/except DoesNotExist: None when no row matches
GetOrNone(rows, id) == IF id \in rows THEN id ELSE None

\* TicketCC._email_address
EmailAddress(cc) ==
    IF cc.user # None /\ users[cc.user].email # "" THEN users[cc.user].email ELSE cc.email

\* ticket.ticketcc_set.all()
TicketCcSet(tid) == SelectSeq(ticketccs, LAMBDA cc : cc.ticket = tid)

\* Ticket._can_be_resolved
can_be_resolved(T, tid) ==
    ~ \E d \in deps : d[1] = tid /\ T[d[2]].status \in {OPEN_STATUS, REOPENED_STATUS}

\* ----------------------------------------------------- update_ticket
\* A variant of lines 601-614 in which a posted owner always counts as a change:
\* what C4 has to tell apart from the code.
no_changes_owner_always_changes(ticket, post) ==
    /\ ~post.files
    /\ post.comment = <<>>
    /\ post.new_status = ticket.status
    /\ post.title = ticket.title
    /\ post.priority = ticket.priority
    /\ post.due_date = ticket.due_date
    /\ post.customer_contact = ticket.customer_contact
    /\ post.customer = ticket.customer
    /\ post.site = ticket.site
    /\ post.customer_product = ticket.customer_product
    /\ post.owner = OWNER_UNSET

\* lines 601-614
no_changes(ticket, post) ==
    /\ ~post.files
    /\ post.comment = <<>>
    /\ post.new_status = ticket.status
    /\ post.title = ticket.title
    /\ post.priority = ticket.priority
    /\ post.due_date = ticket.due_date
    /\ post.customer_contact = ticket.customer_contact
    /\ post.customer = ticket.customer
    /\ post.site = ticket.site
    /\ post.customer_product = ticket.customer_product
    /\ \/ post.owner = OWNER_UNSET
       \/ post.owner = 0 /\ ticket.assigned_to = None
       \/ post.owner # 0 /\ post.owner = ticket.assigned_to

\* A comment is the sequence of its words; '{%' and '%}' are words, and so are
\* the two markers of line 628.
BLOCK_TAG_START == "{%"
BLOCK_TAG_END == "%}"
VERBATIM_MARK == "X-HELPDESK-COMMENT-VERBATIM"
ENDVERBATIM_MARK == "X-HELPDESK-COMMENT-ENDVERBATIM"

\* str.replace(old, new) on every word of the comment, new being a sequence
RECURSIVE Replace(_, _, _)
Replace(comment, old, new) ==
    IF comment = <<>> THEN <<>>
    ELSE (IF Head(comment) = old THEN new ELSE <<Head(comment)>>)
            \o Replace(Tail(comment), old, new)

\* lines 628-629: the two stages that wrap every delimiter of the comment
Neutralise(comment) ==
    LET s1 == Replace(comment, BLOCK_TAG_START, <<VERBATIM_MARK>>)
        s2 == Replace(s1, BLOCK_TAG_END, <<ENDVERBATIM_MARK>>)
        s3 == Replace(s2, VERBATIM_MARK,
                      <<BLOCK_TAG_START, "verbatim", BLOCK_TAG_END, BLOCK_TAG_START>>)
    IN  Replace(s3, ENDVERBATIM_MARK,
                <<BLOCK_TAG_END, BLOCK_TAG_START, "endverbatim", BLOCK_TAG_END>>)

\* the position of the first '%}' after position i, 0 when there is none: the
\* end of the block tag that django.template's lexer reads from a '{%' at i
TagEnd(toks, i) ==
    IF \E j \in (i + 1)..Len(toks) : toks[j] = BLOCK_TAG_END
      THEN CHOOSE j \in (i + 1)..Len(toks) :
              /\ toks[j] = BLOCK_TAG_END
              /\ \A k \in (i + 1)..(j - 1) : toks[k] # BLOCK_TAG_END
      ELSE 0

\* line 631, template_func(comment).render(context), from position i on:
\* [error, out].  Inside a verbatim block every word is text up to a block tag
\* 'endverbatim'; outside, a block tag other than 'verbatim' is a directive,
\* which the engine runs or rejects with TemplateSyntaxError; a verbatim block
\* that is not closed is rejected.
RECURSIVE RenderFrom(_, _, _, _)
RenderFrom(toks, i, in_verbatim, out) ==
    IF i > Len(toks)
      THEN [error |-> IF in_verbatim THEN "unclosed verbatim" ELSE "", out |-> out]
    ELSE IF toks[i] = BLOCK_TAG_START /\ TagEnd(toks, i) # 0
      THEN LET j == TagEnd(toks, i)
               contents == SubSeq(toks, i + 1, j - 1)
           IN  IF in_verbatim
                 THEN IF contents = <<"endverbatim">>
                        THEN RenderFrom(toks, j + 1, FALSE, out)
                        ELSE RenderFrom(toks, j + 1, TRUE, out \o SubSeq(toks, i, j))
                 ELSE IF contents = <<"verbatim">>
                        THEN RenderFrom(toks, j + 1, TRUE, out)
                        ELSE [error |-> "directive", out |-> out]
    ELSE RenderFrom(toks, i + 1, in_verbatim, Append(out, toks[i]))

Render(toks) == RenderFrom(toks, 1, FALSE, <<>>)

\* lines 628-631: the rendered comment, and whether rendering raises
RenderComment(comment) == Render(Neutralise(comment)).out
RenderRaises(comment) == Render(Neutralise(comment)).error # ""

\* lines 633-657: the owner of the request, applied to the instance
\* [ticket, reassigned, title]
OwnerStep(ticket, post) ==
    LET owner == IF post.owner = OWNER_UNSET /\ ticket.assigned_to # None
                   THEN ticket.assigned_to ELSE post.owner
    IN  IF owner # OWNER_UNSET /\ owner # 0 /\ owner # ticket.assigned_to
          THEN [ticket |-> [ticket EXCEPT !.assigned_to = owner], reassigned |-> TRUE,
                title |-> "Assigned to " \o UserStr(owner)]
        ELSE IF owner = 0 /\ ticket.assigned_to # None
          THEN [ticket |-> [ticket EXCEPT !.assigned_to = None], reassigned |-> FALSE,
                title |-> "Unassigned"]
        ELSE [ticket |-> ticket, reassigned |-> FALSE, title |-> ""]

\* lines 665-675: the title of the follow-up
FollowUpTitle(owner_title, status_changed, status, comment) ==
    LET t1 == IF status_changed
                THEN IF owner_title # "" THEN owner_title \o " and " \o StatusDisplay(status)
                                         ELSE StatusDisplay(status)
                ELSE owner_title
    IN  IF t1 # "" THEN t1 ELSE IF comment # <<>> THEN "Comment" ELSE "Updated"

\* base.utils office_time_between(created, date): the working time from a to b
office_time_between(a, b) == IF b > a THEN b - a ELSE 0

\* time_before_first_answer is null
NoDuration == -1

\* The value of 'public' in request.POST (staff.py line 587): the Python False
\* of the default and of line 343, the Python True of line 322, or a posted
\* string.
PyFalse == "False"
PyTrue == "True"
PublicValues == {PyFalse, PyTrue, "1", "0"}

\* the truth of the value in `if public` and `self.public and ...`: every
\* non-empty string is true
PyTruth(public) == public # PyFalse

\* FollowUp.public is a BooleanField: the value the row holds, '1' as True and
\* '0' as False
BooleanField_to_python(public) == public \in {PyTrue, "1"}

\* the row FollowUp.save inserts (models.py line 1073) for the instance f
FollowUpRow(f) == [f EXCEPT !.public = BooleanField_to_python(f.public)]

\* FollowUp.save, models.py lines 1063-1073: the instance after it
FollowUpSaveTicket(ticket, f, t) ==
    LET t1 == [ticket EXCEPT !.modified = t]
    IN  IF t1.time_before_first_answer \in {NoDuration, 0} /\ PyTruth(f.public)
           /\ f.user # None /\ users[f.user].is_staff
          THEN [t1 EXCEPT !.time_before_first_answer = office_time_between(t1.created, f.date)]
          ELSE t1

Row(fid, field, old, new) ==
    [followup |-> fid, field |-> field, old_value |-> old, new_value |-> new]

\* lines 681-775: the TicketChange rows of the follow-up fid.  ticket is the
\* instance after f.save(), old_status and old_owner its values on entry.
TitleChange(ticket, post, fid) ==
    IF post.title # "" /\ post.title # ticket.title
      THEN {Row(fid, "Title", ticket.title, post.title)} ELSE {}

StatusChange(ticket, old_status, post, fid) ==
    IF post.new_status # old_status
      THEN {Row(fid, "Status", StatusDisplay(old_status), StatusDisplay(ticket.status))}
      ELSE {}

OwnerChange(ticket, old_owner, fid) ==
    IF ticket.assigned_to # old_owner
      THEN {Row(fid, "Owner", UserOrUnassigned(old_owner), UserOrUnassigned(ticket.assigned_to))}
      ELSE {}

PriorityChange(ticket, post, fid) ==
    IF post.priority # ticket.priority
      THEN {Row(fid, "Priority", ToString(ticket.priority), ToString(post.priority))}
      ELSE {}

DueDateChange(ticket, post, fid) ==
    IF post.due_date # ticket.due_date
      THEN {Row(fid, "Due on", DueDateStr(ticket.due_date), DueDateStr(post.due_date))}
      ELSE {}

ContactChange(ticket, post, fid) ==
    IF post.customer_contact # ticket.customer_contact
      THEN {Row(fid, "Contact client", UserOrUnassigned(ticket.customer_contact),
                UserOrUnassigned(GetOrNone(Users, post.customer_contact)))}
      ELSE {}

CustomerChange(ticket, post, fid) ==
    IF post.customer # ticket.customer
      THEN {Row(fid, "Client", CustomerOrUnassigned(ticket.customer),
                CustomerOrUnassigned(GetOrNone(Customers, post.customer)))}
      ELSE {}

SiteChange(ticket, post, fid) ==
    IF post.site # ticket.site
      THEN {Row(fid, "Site", SiteOrUnassigned(ticket.site),
                SiteOrUnassigned(GetOrNone(Sites, post.site)))}
      ELSE {}

ProductChange(ticket, post, fid) ==
    IF post.customer_product # ticket.customer_product
      THEN {Row(fid, "Produit client", ProductOrUnassigned(ticket.customer_product),
                ProductOrUnassigned(GetOrNone(CustomerProducts, post.customer_product)))}
      ELSE {}

ChangeRows(ticket, old_status, old_owner, post, fid) ==
    TitleChange(ticket, post, fid) \cup StatusChange(ticket, old_status, post, fid)
      \cup OwnerChange(ticket, old_owner, fid) \cup PriorityChange(ticket, post, fid)
      \cup DueDateChange(ticket, post, fid) \cup ContactChange(ticket, post, fid)
      \cup CustomerChange(ticket, post, fid) \cup SiteChange(ticket, post, fid)
      \cup ProductChange(ticket, post, fid)

\* lines 689-775: the assignments that go with the rows
ApplyChanges(ticket, post) ==
    [ticket EXCEPT
        !.title = IF post.title # "" /\ post.title # ticket.title THEN post.title ELSE @,
        !.priority = post.priority,
        !.due_date = post.due_date,
        !.customer_contact = IF post.customer_contact # @
                               THEN GetOrNone(Users, post.customer_contact) ELSE @,
        !.customer = IF post.customer # @ THEN GetOrNone(Customers, post.customer) ELSE @,
        !.site = IF post.site # @ THEN GetOrNone(Sites, post.site) ELSE @,
        !.customer_product = IF post.customer_product # @
                               THEN GetOrNone(CustomerProducts, post.customer_product) ELSE @]

\* Ticket.resolution is a column without null=True: a loaded ticket's is never None
ResolutionIsNone(ticket) == FALSE

\* lines 777-779
ApplyResolution(ticket, post, comment) ==
    IF post.new_status \in {RESOLVED_STATUS, CLOSED_STATUS}
       /\ (post.new_status = RESOLVED_STATUS \/ ResolutionIsNone(ticket))
      THEN [ticket EXCEPT !.resolution = comment]
      ELSE ticket

\* ------------------------------------------- update_ticket: the e-mails
\* one send_templated_mail call; recipients is the value passed, a list that
\* holds one address or, for the queue's comma-separated field, several
\* A variant that sends without fail_silently: what C14 has to tell apart from
\* the code.
MsgNotSilent(template, recipients, role) ==
    [template |-> template, recipients |-> recipients, role |-> role,
     fail_silently |-> FALSE]

\* every call of update_ticket and mass_update passes fail_silently=True
Msg(template, recipients, role) ==
    [template |-> template, recipients |-> recipients, role |-> role,
     fail_silently |-> TRUE]

\* lines 794-799
StatusTemplate(new_status) ==
    IF new_status = RESOLVED_STATUS THEN "resolved_"
    ELSE IF new_status = CLOSED_STATUS THEN "closed_"
    ELSE "updated_"

\* lines 791-793
PublicNotifyCond(f, public) ==
    PyTruth(public) /\ (f.comment # <<>> \/ f.new_status \in {RESOLVED_STATUS, CLOSED_STATUS})

\* lines 803-812; acc is [msgs, sent_to]
SubmitterNotify(ticket, f, acc) ==
    IF ticket.submitter_email # ""
      THEN [msgs |-> Append(acc.msgs, Msg(StatusTemplate(f.new_status) \o "submitter",
                                          <<ticket.submitter_email>>, "submitter")),
            sent_to |-> acc.sent_to \cup {ticket.submitter_email}]
      ELSE acc

\* lines 816-826
RECURSIVE CcNotify(_, _, _, _)
CcNotify(ccs, i, f, acc) ==
    IF i > Len(ccs) THEN acc
    ELSE LET addr == EmailAddress(ccs[i])
         IN  IF addr \notin acc.sent_to
               THEN CcNotify(ccs, i + 1, f,
                      [msgs |-> Append(acc.msgs, Msg(StatusTemplate(f.new_status) \o "cc",
                                                     <<addr>>, "cc")),
                       sent_to |-> acc.sent_to \cup {addr}])
               ELSE CcNotify(ccs, i + 1, f, acc)

\* lines 835-842
OwnerTemplate(f, reassigned) ==
    IF reassigned THEN "assigned_owner"
    ELSE IF f.new_status = RESOLVED_STATUS THEN "resolved_owner"
    ELSE IF f.new_status = CLOSED_STATUS THEN "closed_owner"
    ELSE "updated_owner"

\* lines 844-850
OwnerPreference(owner, reassigned) ==
    \/ ~reassigned
    \/ reassigned /\ users[owner].email_on_ticket_assign
    \/ ~reassigned /\ users[owner].email_on_ticket_change

\* lines 828-859
OwnerNotify(ticket, f, user, reassigned, acc) ==
    IF /\ ticket.assigned_to # None
       /\ user # ticket.assigned_to
       /\ users[ticket.assigned_to].email # ""
       /\ users[ticket.assigned_to].email \notin acc.sent_to
       /\ OwnerPreference(ticket.assigned_to, reassigned)
      THEN [msgs |-> Append(acc.msgs, Msg(OwnerTemplate(f, reassigned),
                                          <<users[ticket.assigned_to].email>>, "owner")),
            sent_to |-> acc.sent_to \cup {users[ticket.assigned_to].email}]
      ELSE acc

\* lines 862-869
QueueCcTemplate(f, reassigned) ==
    IF reassigned THEN "assigned_cc"
    ELSE IF f.new_status = RESOLVED_STATUS THEN "resolved_cc"
    ELSE IF f.new_status = CLOSED_STATUS THEN "closed_cc"
    ELSE "updated_cc"

\* line 861: "updated_ticket_cc not in messages_sent_to" compares the whole
\* field with each address sent to
InSentTo(cc_field, sent_to) == Len(cc_field) = 1 /\ cc_field[1] \in sent_to

\* lines 861-878
QueueNotify(f, reassigned, acc) ==
    IF queue.updated_ticket_cc # <<>> /\ ~InSentTo(queue.updated_ticket_cc, acc.sent_to)
      THEN [msgs |-> Append(acc.msgs, Msg(QueueCcTemplate(f, reassigned),
                                          queue.updated_ticket_cc, "queue")),
            sent_to |-> acc.sent_to]
      ELSE acc

\* lines 781-878: the send_templated_mail calls of one update, in order
Notifications(ticket, tid, f, user, public, reassigned) ==
    LET a0 == [msgs |-> <<>>, sent_to |-> {}]
        a1 == IF PublicNotifyCond(f, public)
                THEN CcNotify(TicketCcSet(tid), 1, f, SubmitterNotify(ticket, f, a0))
                ELSE a0
        a2 == OwnerNotify(ticket, f, user, reassigned, a1)
    IN  QueueNotify(f, reassigned, a2).msgs

\* helpdesk.lib.send_templated_mail: the addresses one call delivers to, the
\* recipients split at the commas
Delivered(msg) == {msg.recipients[i] : i \in 1..Len(msg.recipients)}

\* ---------------------------------------------------- subscriptions
\* str.upper() on the strings of the model; a string that is not listed has no
\* lower-case letter
Upper(s) ==
    CASE s = "u1@x" -> "U1@X" [] s = "u2@x" -> "U2@X" [] s = "U1@x" -> "U1@X"
      [] s = "s@x" -> "S@X" [] s = "m@x" -> "M@X" [] s = "c@x" -> "C@X"
      [] s = "q@x" -> "Q@X" [] s = "user1" -> "USER1" [] s = "user2" -> "USER2"
      [] s = "None" -> "NONE" [] OTHER -> s

\* User.get_username() and str(user) of the auth User
get_username(u) == UserStr(u)

\* str(ticket.assigned_to), line 536: 'None' for a ticket without an owner
StrAssignedTo(ticket) ==
    IF ticket.assigned_to = None THEN "None" ELSE get_username(ticket.assigned_to)

\* str(ticketcc.display).upper(), line 528 with models.py lines 1723-1728
DisplayUpper(cc) ==
    IF cc.user # None
      THEN Upper(get_username(cc.user)) \o " <" \o Upper(users[cc.user].email) \o ">"
      ELSE Upper(cc.email)

\* return_ticketccstring_and_show_subscribe, lines 511-545: the second value.
\* A submitter_email that is not None is a string, the empty one included.
show_subscribe(user, ticket, tid) ==
    LET strings_of_user == {Upper(get_username(user)), Upper(users[user].email)}
        displays == {DisplayUpper(ticketccs[i]) :
                        i \in {j \in 1..Len(ticketccs) : ticketccs[j].ticket = tid}}
        strings_to_check == {Upper(ticket.submitter_email), Upper(StrAssignedTo(ticket))}
    IN  /\ displays \cap strings_of_user = {}
        /\ strings_of_user \cap strings_to_check = {}

\* subscribe_staff_member_to_ticket, lines 548-557
subscribe_staff_member_to_ticket(ccs, tid, user) ==
    IF \E i \in 1..Len(ccs) : ccs[i].ticket = tid /\ ccs[i].user = user
      THEN ccs
      ELSE Append(ccs, [ticket |-> tid, user |-> user, email |-> "",
                        can_view |-> TRUE, can_update |-> TRUE])

\* FollowUp.save, models.py lines 1063-1073, on a database [tickets, sums]:
\* the ticket is saved, then the follow-up row is inserted
FollowUpSave(db, tid, inst, f, t) ==
    TicketSave(db, tid, FollowUpSaveTicket(inst, f, t), t, ALL_FIELDS)

Db(r) == [tickets |-> r.tickets, sums |-> r.sums]

\* ------------------------------------------------ update_ticket, whole
\* lines 573-888 for a request that passes the check of lines 574-580.
\* post holds the parsed values of lines 584-599, ticket0 is the instance that
\* line 582 loaded.
UpdateTicketFrom(ticket0, tid, user, post) ==
    LET comment        == RenderComment(post.comment)
        os             == OwnerStep(ticket0, post)
        old_owner      == ticket0.assigned_to
        old_status     == ticket0.status
        status_changed == post.new_status # ticket0.status
        db0            == [tickets |-> tickets, sums |-> sums]
        \* lines 661-663
        r1 == IF status_changed
                THEN TicketSave(db0, tid, [os.ticket EXCEPT !.status = post.new_status],
                                now, ALL_FIELDS)
                ELSE [tickets |-> tickets, sums |-> sums, self |-> os.ticket]
        f  == [ticket |-> tid, date |-> now, comment |-> comment, public |-> post.public,
               user |-> user,
               new_status |-> IF status_changed THEN post.new_status ELSE None,
               title |-> FollowUpTitle(os.title, status_changed, post.new_status, comment)]
        \* line 677
        r2  == FollowUpSave(Db(r1), tid, r1.self, f, now)
        fid == Len(followups) + 1
        rows == ChangeRows(r2.self, old_status, old_owner, post, fid)
        t3  == ApplyResolution(ApplyChanges(r2.self, post), post, comment)
        msgs == Notifications(t3, tid, f, user, post.public, os.reassigned)
        \* line 880
        r3  == TicketSave(Db(r2), tid, t3, now, ALL_FIELDS)
        \* lines 882-886
        ccs == IF conf.auto_subscribe /\ user # None /\ show_subscribe(user, r3.self, tid)
                 THEN subscribe_staff_member_to_ticket(ticketccs, tid, user)
                 ELSE ticketccs
    IN  [tickets |-> r3.tickets, sums |-> r3.sums, followup |-> f, rows |-> rows,
         msgs |-> msgs, ticketccs |-> ccs, reassigned |-> os.reassigned,
         unsaved |-> Db(r2)]

\* lines 582-888 when nothing else is written between the load of line 582 and
\* the end of the request
UpdateTicketResult(tid, user, post) == UpdateTicketFrom(tickets[tid], tid, user, post)

\* The sends of msgs that raise when the deliveries of `failed` (positions in
\* msgs) fail: a send with fail_silently returns, any other raises.
Raising(msgs, failed) == {i \in 1..Len(msgs) : i \in failed /\ ~msgs[i].fail_silently}

\* the string the ticket form posts for a related row
IdString(id) == IF id = None THEN "" ELSE ToString(id)

\* the strings of request.POST that lines 584-599 parse to post
PostStrings(post) ==
    [post EXCEPT !.new_status = ToString(@), !.owner = ToString(@),
                 !.priority = ToString(@), !.customer_contact = IdString(@),
                 !.customer = IdString(@), !.site = IdString(@),
                 !.customer_product = IdString(@)]

\* lines 659-886 as the request writes them: r is what the request computes,
\* and a send that raises ends the request at that send
update_ticket_write(r, tid, user, raw, post, failed, via) ==
    LET raising == Raising(r.msgs, failed)
        first == CHOOSE i \in raising : \A j \in raising : i <= j
    IN  /\ followups' = Append(followups, FollowUpRow(r.followup))
        /\ ticketChanges' = ticketChanges \cup r.rows
        /\ last' = [op |-> "update_ticket", via |-> via, tid |-> tid, user |-> user,
                    raw |-> raw, post |-> post, no_changes |-> FALSE,
                    reassigned |-> r.reassigned, failed |-> failed,
                    raised |-> "", saved |-> <<tid>>,
                    update_fields |-> ALL_FIELDS]
        /\ IF raising = {}
             THEN /\ tickets' = r.tickets
                  /\ sums' = r.sums
                  /\ ticketccs' = r.ticketccs
                  /\ sent' = r.msgs
             ELSE /\ tickets' = r.unsaved.tickets
                  /\ sums' = r.unsaved.sums
                  /\ ticketccs' = ticketccs
                  /\ sent' = SubSeq(r.msgs, 1, first)

\* update_ticket, lines 601-888, with the values post that lines 584-599 parsed
\* from the strings raw, the owner being -1, 0 or the id of a user, when the
\* deliveries of `failed` fail.  A send that raises ends the request there: the
\* later sends, the save of line 880 and the subscription of lines 882-886 do
\* not happen.  via is the view that built the request and its query string.
update_ticket_via(tid, user, raw, post, failed, via) ==
    /\ post.owner \in Users \cup {0, OWNER_UNSET}
    /\ now' = now + 1
    /\ IF no_changes(tickets[tid], post)
         THEN \* lines 615-617
              /\ last' = [op |-> "update_ticket", via |-> via, tid |-> tid, user |-> user,
                          raw |-> raw, post |-> post, no_changes |-> TRUE,
                          reassigned |-> FALSE, failed |-> failed,
                          raised |-> "", saved |-> <<>>, update_fields |-> ALL_FIELDS]
              /\ sent' = <<>>
              /\ UNCHANGED <<tickets, sums, followups, ticketChanges, ticketccs>>
         ELSE IF RenderRaises(post.comment)
           THEN \* line 631 raises, before the first write
                /\ last' = [op |-> "update_ticket", via |-> via, tid |-> tid, user |-> user,
                            raw |-> raw, post |-> post, no_changes |-> FALSE,
                            reassigned |-> FALSE, failed |-> failed,
                            raised |-> "TemplateSyntaxError", saved |-> <<>>,
                            update_fields |-> ALL_FIELDS]
                /\ sent' = <<>>
                /\ UNCHANGED <<tickets, sums, followups, ticketChanges, ticketccs>>
         ELSE update_ticket_write(UpdateTicketResult(tid, user, post),
                                  tid, user, raw, post, failed, via)
    /\ UNCHANGED <<deps, users, queue, conf, savedSearches, queues, permissions, inflight>>

\* a request that is posted to update_ticket, not built by a view
Direct == [view |-> "update_ticket", get |-> {}]

update_ticket_parsed(tid, user, raw, post, failed) ==
    update_ticket_via(tid, user, raw, post, failed, Direct)

\* update_ticket, lines 573-888, for a request that parses to post, when the
\* deliveries of `failed` fail
update_ticket_delivery(tid, user, post, failed) ==
    update_ticket_parsed(tid, user, PostStrings(post), post, failed)

\* update_ticket, lines 573-888, when every message is delivered
update_ticket(tid, user, post) == update_ticket_delivery(tid, user, post, {})

\* ------------------------------------------------------ mass_update
\* _has_access_to_queue, lines 74-84
has_access_to_queue(user, q) ==
    \/ users[user].is_superuser
    \/ ~conf.per_queue_permission
    \/ q \in users[user].perms

\* lines 974-983: the CC loop of close_public, every message 'closed_submitter'
RECURSIVE MassCcNotify(_, _, _)
MassCcNotify(ccs, i, acc) ==
    IF i > Len(ccs) THEN acc
    ELSE LET addr == EmailAddress(ccs[i])
         IN  IF addr \notin acc.sent_to
               THEN MassCcNotify(ccs, i + 1,
                      [msgs |-> Append(acc.msgs, Msg("closed_submitter", <<addr>>, "cc")),
                       sent_to |-> acc.sent_to \cup {addr}])
               ELSE MassCcNotify(ccs, i + 1, acc)

\* lines 957-1006: the e-mails of close_public for the ticket t
MassCloseMails(t, tid, user) ==
    LET a0 == [msgs |-> <<>>, sent_to |-> {}]
        a1 == IF t.submitter_email # ""
                THEN [msgs |-> <<Msg("closed_submitter", <<t.submitter_email>>, "submitter")>>,
                      sent_to |-> {t.submitter_email}]
                ELSE a0
        a2 == MassCcNotify(TicketCcSet(tid), 1, a1)
        a3 == IF /\ t.assigned_to # None
                 /\ user # t.assigned_to
                 /\ users[t.assigned_to].email # ""
                 /\ users[t.assigned_to].email \notin a2.sent_to
                THEN [msgs |-> Append(a2.msgs, Msg("closed_owner",
                                                   <<users[t.assigned_to].email>>, "owner")),
                      sent_to |-> a2.sent_to \cup {users[t.assigned_to].email}]
                ELSE a2
    IN  IF queue.updated_ticket_cc # <<>> /\ ~InSentTo(queue.updated_ticket_cc, a3.sent_to)
          THEN Append(a3.msgs, Msg("closed_cc", queue.updated_ticket_cc, "queue"))
          ELSE a3.msgs

\* t.delete() of line 1008: the tickets that go with the ticket tid, which are
\* the tickets merged into it (merged_to is on_delete=CASCADE, models.py
\* lines 683-690) and those merged into them
RECURSIVE DeleteCascade(_, _)
DeleteCascade(T, ids) ==
    LET more == {m \in DOMAIN T : T[m].merged_to \in ids} \ ids
    IN  IF more = {} THEN ids ELSE DeleteCascade(T, ids \cup more)

\* the rows a deletion of the tickets `gone` leaves.  A follow-up is known by
\* its place in followups, so the TicketChange rows follow the places of the
\* follow-ups that stay.
TicketsWithout(T, gone) == [i \in DOMAIN T \ gone |-> T[i]]
FollowUpsWithout(F, gone) == SelectSeq(F, LAMBDA f : f.ticket \notin gone)
PlaceWithout(F, gone, i) == Cardinality({j \in 1..i : F[j].ticket \notin gone})
ChangesWithout(C, F, gone) ==
    {[c EXCEPT !.followup = PlaceWithout(F, gone, c.followup)] :
        c \in {x \in C : F[x.followup].ticket \notin gone}}
CcsWithout(ccs, gone) == SelectSeq(ccs, LAMBDA cc : cc.ticket \notin gone)
DepsWithout(D, gone) == {d \in D : d[1] \notin gone /\ d[2] \notin gone}

\* lines 916-1008 for one ticket of the loop; st is [tickets, sums, followups,
\* msgs, saved, deleted].  t is the instance the queryset of line 915 loaded.
\* action is "assign" with the user to assign, "unassign", "close",
\* "close_public" or "delete".
MassUpdateOne(st, tid, t, user, action, assignee) ==
    LET
        changed ==
            IF action = "assign" /\ t.assigned_to # assignee
              THEN [self |-> [t EXCEPT !.assigned_to = assignee], hit |-> TRUE,
                    title |-> "Assigned to " \o UserStr(assignee) \o " in bulk update",
                    public |-> PyTrue, new_status |-> None]
            ELSE IF action = "unassign" /\ t.assigned_to # None
              THEN [self |-> [t EXCEPT !.assigned_to = None], hit |-> TRUE,
                    title |-> "Unassigned in bulk update",
                    public |-> PyTrue, new_status |-> None]
            ELSE IF action = "close" /\ t.status # CLOSED_STATUS
              THEN [self |-> [t EXCEPT !.status = CLOSED_STATUS], hit |-> TRUE,
                    title |-> "Closed in bulk update",
                    public |-> PyFalse, new_status |-> CLOSED_STATUS]
            ELSE IF action = "close_public" /\ t.status # CLOSED_STATUS
              THEN [self |-> [t EXCEPT !.status = CLOSED_STATUS], hit |-> TRUE,
                    title |-> "Closed in bulk update",
                    public |-> PyTrue, new_status |-> CLOSED_STATUS]
            ELSE [self |-> t, hit |-> FALSE, title |-> "", public |-> PyFalse,
                  new_status |-> None]
        f  == [ticket |-> tid, date |-> now, comment |-> <<>>, public |-> changed.public,
               user |-> user, new_status |-> changed.new_status, title |-> changed.title]
        r1 == TicketSave(Db(st), tid, changed.self, now, ALL_FIELDS)
        r2 == FollowUpSave(Db(r1), tid, r1.self, f, now)
    IN  IF ~has_access_to_queue(user, t.queue)
          THEN st
        ELSE IF action = "delete"
          THEN [st EXCEPT !.deleted = DeleteCascade(st.tickets, st.deleted \cup {tid})]
        ELSE IF ~changed.hit
          THEN st
          ELSE [tickets |-> r2.tickets, sums |-> r2.sums,
                followups |-> Append(st.followups, FollowUpRow(f)),
                saved |-> Append(st.saved, tid),
                deleted |-> st.deleted,
                msgs |-> IF action = "close_public"
                           THEN st.msgs \o MassCloseMails(r2.self, tid, user)
                           ELSE st.msgs]

\* line 915: for t in Ticket.objects.filter(id__in=tickets), in the order of the ids
RECURSIVE MassUpdateLoop(_, _, _, _, _)
MassUpdateLoop(st, ids, user, action, assignee) ==
    IF ids = {} THEN st
    ELSE LET id == CHOOSE i \in ids : \A j \in ids : i <= j
         IN  MassUpdateLoop(MassUpdateOne(st, id, tickets[id], user, action, assignee),
                            ids \ {id}, user, action, assignee)

\* mass_update, lines 900-1011.  action "assign" stands for 'assign_<id>' and
\* for 'take' (assignee = the requesting user).
mass_update(user, ids, action, assignee) ==
    /\ ids # {}
    /\ ids \subseteq DOMAIN tickets
    /\ LET r == MassUpdateLoop([tickets |-> tickets, sums |-> sums,
                                followups |-> followups, msgs |-> <<>>,
                                saved |-> <<>>, deleted |-> {}],
                               ids, user, action, assignee)
       IN  /\ tickets' = TicketsWithout(r.tickets, r.deleted)
           /\ sums' = r.sums
           /\ followups' = FollowUpsWithout(r.followups, r.deleted)
           /\ ticketChanges' = ChangesWithout(ticketChanges, r.followups, r.deleted)
           /\ ticketccs' = CcsWithout(ticketccs, r.deleted)
           /\ deps' = DepsWithout(deps, r.deleted)
           /\ sent' = r.msgs
           /\ last' = [op |-> "mass_update", ids |-> ids, user |-> user,
                       action |-> action, saved |-> r.saved, update_fields |-> ALL_FIELDS]
    /\ now' = now + 1
    /\ UNCHANGED <<users, queue, conf, savedSearches, queues, permissions, inflight>>

\* ----------------------------------------------- quick_update_ticket
\* a ticket as create_ticket leaves it: Open, no dates but created and modified
NewTicket(submitter_email) ==
    [status |-> OPEN_STATUS, resolved |-> None, closed |-> None, created |-> 1,
     modified |-> 1, title |-> "t1", priority |-> DEFAULT_PRIORITY, due_date |-> None,
     assigned_to |-> None, customer_contact |-> None, customer |-> None, site |-> None,
     customer_product |-> None, category |-> None, type |-> None, billing |-> None,
     submitter_email |-> submitter_email, merged_to |-> None, resolution |-> <<>>,
     on_hold |-> FALSE, time_before_first_answer |-> NoDuration, queue |-> 1]

\* A key that request.POST does not hold
KeyMissing == "<missing>"

\* int(request.POST['value']), line 276: the strings that int() accepts, with
\* their value; every other string raises ValueError
IntStrings == {"0", "1", "2"}
ParseInt(raw) == CASE raw = "0" -> 0 [] raw = "1" -> 1 [] raw = "2" -> 2

\* the attributes of a ticket: hasattr(ticket, field) of line 281
TicketAttributes == DOMAIN NewTicket("")

\* the foreign keys of Ticket, which have a <field>_id attribute, with the ids
\* of the rows they may name
ForeignKeys ==
    {"assigned_to", "customer_contact", "customer", "site", "customer_product",
     "category", "type", "merged_to", "queue"}

ReferencedIds(field) ==
    CASE field \in {"assigned_to", "customer_contact"} -> Users
      [] field = "customer" -> Customers
      [] field = "site" -> Sites
      [] field = "customer_product" -> CustomerProducts
      [] field = "merged_to" -> TicketIds
      [] field = "queue" -> QueueIds
      [] OTHER -> {1}

\* line 284: setattr(ticket, field + '_id', value), or field itself for billing.
\* On a column that is no foreign key <field>_id is a new attribute and the
\* column keeps its value.
QuickSetAttr(ticket, field, value) ==
    IF field \in ForeignKeys \cup {"billing"}
      THEN [ticket EXCEPT ![field] = value]
      ELSE ticket

\* lines 272-282: the request is answered {'success': False, 'error': ...}
QuickError(field, value) ==
    \/ field \in {KeyMissing, ""}
    \/ value \notin IntStrings
    \/ field \notin TicketAttributes

\* lines 266-290, for an AJAX request; field and value are the strings of
\* request.POST.  A foreign key is given the id of an existing row.
quick_update_ticket(tid, field, value) ==
    /\ (~QuickError(field, value) /\ field \in ForeignKeys)
          => ParseInt(value) \in ReferencedIds(field)
    /\ IF QuickError(field, value)
         THEN /\ UNCHANGED <<tickets, sums>>
              /\ last' = [op |-> "quick_update_ticket", tid |-> tid, field |-> field,
                          value |-> value, success |-> FALSE,
                          saved |-> <<>>, update_fields |-> {field}]
         ELSE LET inst == QuickSetAttr(tickets[tid], field, ParseInt(value))
                  r == TicketSave([tickets |-> tickets, sums |-> sums], tid, inst, now,
                                  {field})
              IN  /\ tickets' = r.tickets
                  /\ sums' = r.sums
                  /\ last' = [op |-> "quick_update_ticket", tid |-> tid, field |-> field,
                              value |-> value, success |-> TRUE,
                              saved |-> <<tid>>, update_fields |-> {field}]
    /\ now' = now + 1
    /\ sent' = <<>>
    /\ UNCHANGED <<followups, ticketChanges, ticketccs, deps, users, queue, conf, savedSearches, queues, permissions, inflight>>

\* ---------------------------------------- choose_customer_for_ticket
\* lines 560-570
choose_customer_for_ticket(tid, customer) ==
    /\ customer \in Customers
    /\ LET inst == [tickets[tid] EXCEPT !.customer = customer]
           r == TicketSave([tickets |-> tickets, sums |-> sums], tid, inst, now, {"customer"})
       IN  /\ tickets' = r.tickets
           /\ sums' = r.sums
    /\ now' = now + 1
    /\ sent' = <<>>
    /\ last' = [op |-> "choose_customer_for_ticket", tid |-> tid, customer |-> customer,
                saved |-> <<tid>>, update_fields |-> {"customer"}]
    /\ UNCHANGED <<followups, ticketChanges, ticketccs, deps, users, queue, conf, savedSearches, queues, permissions, inflight>>

\* ------------------------------------------------------- hold_ticket
\* lines 1307-1338, for a user who passes the checks of lines 1310-1313
hold_ticket(tid, user, unhold) ==
    /\ has_access_to_queue(user, tickets[tid].queue)
    /\ LET inst == [tickets[tid] EXCEPT !.on_hold = ~unhold]
           f == [ticket |-> tid, date |-> now, comment |-> <<>>, public |-> PyTrue,
                 user |-> user, new_status |-> None,
                 title |-> IF unhold THEN "Ticket taken off hold"
                                     ELSE "Ticket placed on hold"]
           r1 == FollowUpSave([tickets |-> tickets, sums |-> sums], tid, inst, f, now)
           r2 == TicketSave(Db(r1), tid, r1.self, now, ALL_FIELDS)
       IN  /\ tickets' = r2.tickets
           /\ sums' = r2.sums
           /\ followups' = Append(followups, FollowUpRow(f))
    /\ now' = now + 1
    /\ sent' = <<>>
    /\ last' = [op |-> "hold_ticket", tid |-> tid, user |-> user,
                saved |-> <<tid>>, update_fields |-> ALL_FIELDS]
    /\ UNCHANGED <<ticketChanges, ticketccs, deps, users, queue, conf, savedSearches, queues, permissions, inflight>>

\* ---------------------------------------------------- saved queries
\* The strings SavedSearch.query may hold: the base64 of a JSON filter
\* specification (here the empty one), the base64 of a pickle of protocol 0
\* (ASCII text that is no JSON), the base64 of a binary pickle (bytes that are
\* no UTF-8), and a string that is no base64 (wrong padding).  None of them
\* starts with a character that lstrip("b\\'") removes.
StoredQueries == {"json", "pickle0", "pickle2", "padding"}

\* json.loads(b64decode(str(query).lstrip("b\\'")).decode()), staff.py lines
\* 1081 and 1410: the exception it raises, or "none"
DecodeError(query) ==
    CASE query = "padding" -> "binascii.Error"
      [] query = "pickle2" -> "UnicodeDecodeError"
      [] query = "pickle0" -> "JSONDecodeError"
      [] OTHER -> "none"

\* `except cls` catches exc: the three exceptions are subclasses of ValueError
Catches(cls, exc) ==
    \/ exc = cls
    \/ cls = "ValueError"
          /\ exc \in {"binascii.Error", "UnicodeDecodeError", "JSONDecodeError"}

\* staff.py lines 1069-1084 and 1398-1416: the saved query pk (None when the
\* request has no saved_query) as the user loads it, with `except cls` around
\* the decoding
LoadSavedQuery(user, pk, cls) ==
    IF pk = None THEN "none"
    ELSE IF pk \notin 1..Len(savedSearches) THEN "redirect"
    ELSE IF ~(savedSearches[pk].shared \/ savedSearches[pk].user = user) THEN "redirect"
    ELSE IF DecodeError(savedSearches[pk].query) = "none" THEN "loaded"
    ELSE IF Catches(cls, DecodeError(savedSearches[pk].query)) THEN "redirect"
    ELSE "raise"

\* ticket_list, lines 1015-1084: up to the loading of the saved query
ticket_list(user, pk) ==
    /\ LET loaded == LoadSavedQuery(user, pk, "ValueError")
       IN  last' = [op |-> "ticket_list", user |-> user, pk |-> pk,
                    response |-> IF loaded \in {"redirect", "raise"} THEN loaded
                                 ELSE "rendered",
                    applied |-> loaded = "loaded",
                    saved |-> <<>>, update_fields |-> ALL_FIELDS]
    /\ now' = now + 1
    /\ sent' = <<>>
    /\ UNCHANGED <<tickets, sums, followups, ticketChanges, ticketccs, deps, users,
                   queue, conf, savedSearches, queues, permissions, inflight>>

\* ----------------------------------------------------------- run_report
Reports ==
    {"queuemonth", "usermonth", "queuestatus", "queuepriority", "userstatus",
     "userpriority", "userqueue", "daysuntilticketclosedbymonth"}

\* The clock counts days, and a month of the model has DaysPerMonth days.
TicksPerDay == 1
DaysPerMonth == 30

\* ticket.created.month, line 1531
MonthOf(t) == ((t - 1) \div (DaysPerMonth * TicksPerDay)) + 1

\* (ticket.modified - ticket.created).days, lines 1532-1533
DaysOpen(ticket) == (ticket.modified - ticket.created) \div TicksPerDay

\* the sum of f over the set S
RECURSIVE SumOver(_, _)
SumOver(S, f) ==
    IF S = {} THEN 0
    ELSE LET x == CHOOSE y \in S : TRUE IN f[x] + SumOver(S \ {x}, f)

\* lines 1499-1544 for the reports by month: the cells of summarytable, by
\* month (the tickets are those of one queue).  A cell is the fraction
\* <<numerator, denominator>>.  summarytable2 gets a key only from a ticket
\* whose metric3 is true, that is, not 0.
SummaryTable(report, T) ==
    LET months == {MonthOf(T[i].created) : i \in DOMAIN T}
        cell(m) == {i \in DOMAIN T : MonthOf(T[i].created) = m}
        days == [i \in DOMAIN T |-> DaysOpen(T[i])]
        inTable2(m) == \E i \in cell(m) : days[i] # 0
    IN  [m \in months |->
            IF report = "daysuntilticketclosedbymonth" /\ inTable2(m)
              THEN <<SumOver(cell(m), days), Cardinality(cell(m))>>
              ELSE <<Cardinality(cell(m)), 1>>]

\* run_report, lines 1382-1556, for the reports by month and a database with
\* tickets
run_report(user, report, pk) ==
    /\ LET loaded == LoadSavedQuery(user, pk, "JSONDecodeError")
       IN  last' = [op |-> "run_report", user |-> user, report |-> report, pk |-> pk,
                    response |-> IF report \notin Reports THEN "redirect"
                                 ELSE IF loaded \in {"redirect", "raise"} THEN loaded
                                 ELSE "rendered",
                    applied |-> report \in Reports /\ loaded = "loaded",
                    table |-> IF report \in Reports /\ loaded \in {"none", "loaded"}
                                THEN SummaryTable(report, tickets)
                                ELSE <<>>,
                    saved |-> <<>>, update_fields |-> ALL_FIELDS]
    /\ now' = now + 1
    /\ sent' = <<>>
    /\ UNCHANGED <<tickets, sums, followups, ticketChanges, ticketccs, deps, users,
                   queue, conf, savedSearches, queues, permissions, inflight>>

\* ----------------------------------------------------------- Queue.save
\* prepare_permission_name, models.py lines 306-313: the codename of the
\* permission, and permission_name with its prefix
PermissionCodename(slug) == "queue_access_" \o slug
PermissionName(slug) == "helpdesk." \o PermissionCodename(slug)

\* A variant of lines 338-347 that prepares the permission name at every save:
\* what C17 has to tell apart from the code.
PreparePermissionAlways(self, id) ==
    [self EXCEPT !.permission_name = PermissionName(self.slug)]

\* lines 338-341: the instance after `if not self.id:`; id is None for a queue
\* not saved yet
PreparePermission(self, id) ==
    IF id = None
      THEN [self EXCEPT !.permission_name = PermissionName(self.slug)]
      ELSE self

\* Queue.save, models.py lines 315-349, of the instance of the queue id (None
\* for a new one) with the slug given.  Permission.objects.create and the
\* INSERT or UPDATE raise IntegrityError on a codename or a slug in use.
QueueSave(id, slug) ==
    LET loaded == IF id = None THEN [slug |-> slug, permission_name |-> ""]
                  ELSE [queues[id] EXCEPT !.slug = slug]
        self == PreparePermission(loaded, id)
        codenameTaken == id = None /\ PermissionCodename(slug) \in permissions
        slugTaken == \E q \in 1..Len(queues) : q # id /\ queues[q].slug = slug
    IN  /\ id # None => id \in 1..Len(queues)
        /\ permissions' = IF id = None /\ ~codenameTaken
                            THEN permissions \cup {PermissionCodename(slug)}
                            ELSE permissions
        /\ queues' = IF codenameTaken \/ slugTaken THEN queues
                     ELSE IF id = None THEN Append(queues, self)
                     ELSE [queues EXCEPT ![id] = self]
        /\ last' = [op |-> "Queue.save", id |-> id, slug |-> slug,
                    raised |-> codenameTaken \/ slugTaken,
                    saved |-> <<>>, update_fields |-> ALL_FIELDS]
        /\ now' = now + 1
        /\ sent' = <<>>
        /\ UNCHANGED <<tickets, sums, followups, ticketChanges, ticketccs, deps, users,
                       queue, conf, savedSearches, inflight>>

\* ------------------------------------- update_ticket, from request.POST
\* int() of lines 585-593: the strings that it accepts, with their value; every
\* other string, the empty one included, raises ValueError
IntLiterals == {"-1", "0", "1", "2", "3", "4", "5", "9"}
PyInt(raw) ==
    CASE raw = "-1" -> -1 [] raw = "0" -> 0 [] raw = "1" -> 1 [] raw = "2" -> 2
      [] raw = "3" -> 3 [] raw = "4" -> 4 [] raw = "5" -> 5 [] raw = "9" -> 9

\* the keys of request.POST that lines 585-593 give to int()
DefaultedKeys == {"new_status", "owner", "priority"}
OptionalIdKeys == {"customer_contact", "customer", "site", "customer_product"}
NumericKeys == DefaultedKeys \cup OptionalIdKeys

\* lines 585, 588, 589: int(request.POST.get(key, default)) raises ValueError
DefaultedParseError(value) == value # KeyMissing /\ value \notin IntLiterals

\* A variant of lines 590-593 that takes None for whatever is not a number:
\* what C20 has to tell apart from the code.
OptionalIdParseErrorNever(value) == FALSE

\* lines 590-593: int(value) if value else None raises ValueError
OptionalIdParseError(value) == value \notin {KeyMissing, ""} /\ value \notin IntLiterals

\* lines 585-593 raise ValueError
PostValueError(raw) ==
    \/ \E k \in DefaultedKeys : DefaultedParseError(raw[k])
    \/ \E k \in OptionalIdKeys : OptionalIdParseError(raw[k])

\* lines 585, 588, 589, when they do not raise
ParseDefaulted(value, default) == IF value = KeyMissing THEN default ELSE PyInt(value)

\* lines 590-593, when they do not raise
ParseOptionalId(value) == IF value \in IntLiterals THEN PyInt(value) ELSE None

\* lines 584-599, when they do not raise: the values update_ticket goes on with
ParsedPost(ticket, raw) ==
    [comment |-> raw.comment, title |-> raw.title, public |-> raw.public,
     due_date |-> raw.due_date, files |-> raw.files,
     new_status |-> ParseDefaulted(raw.new_status, ticket.status),
     owner |-> ParseDefaulted(raw.owner, OWNER_UNSET),
     priority |-> ParseDefaulted(raw.priority, ticket.priority),
     customer_contact |-> ParseOptionalId(raw.customer_contact),
     customer |-> ParseOptionalId(raw.customer),
     site |-> ParseOptionalId(raw.site),
     customer_product |-> ParseOptionalId(raw.customer_product)]

\* lines 612-613: the list of line 601 is built whole, so User.objects.get runs
\* for every owner but -1 and 0, and raises User.DoesNotExist when no user has
\* that id
OwnerDoesNotExist(owner) == owner \notin {OWNER_UNSET, 0} /\ owner \notin DOMAIN users

\* an exception that leaves update_ticket before its first write
UpdateTicketRaises(tid, user, raw, exc) ==
    /\ now' = now + 1
    /\ sent' = <<>>
    /\ last' = [op |-> "update_ticket", tid |-> tid, user |-> user, raw |-> raw,
                raised |-> exc, saved |-> <<>>, update_fields |-> ALL_FIELDS]
    /\ UNCHANGED <<tickets, sums, followups, ticketChanges, ticketccs, deps, users,
                   queue, conf, savedSearches, queues, permissions, inflight>>

\* update_ticket, lines 573-888, from the strings of request.POST, for a
\* request that passes the check of lines 574-580
update_ticket_request(tid, user, raw) ==
    IF PostValueError(raw)
      THEN UpdateTicketRaises(tid, user, raw, "ValueError")
    ELSE IF OwnerDoesNotExist(ParsedPost(tickets[tid], raw).owner)
      THEN UpdateTicketRaises(tid, user, raw, "DoesNotExist")
    ELSE update_ticket_parsed(tid, user, raw, ParsedPost(tickets[tid], raw), {})

\* ------------------------------------------ view_ticket, subscribe
\* _is_my_ticket, lines 87-99; has_perm('view_customer', ...) is held by no
\* user of the model
is_my_ticket(user, ticket) ==
    \/ users[user].is_superuser
    \/ users[user].is_staff
    \/ ticket.customer_contact # None /\ ticket.customer_contact = user

\* the request view_ticket builds at lines 321-331 before it adds 'owner' or
\* 'new_status', as update_ticket parses it at lines 584-599: every field at
\* the ticket's value, no comment, no file, no owner key
UnchangedPost(ticket) ==
    [comment |-> <<>>, new_status |-> ticket.status, title |-> ticket.title,
     public |-> PyTrue, owner |-> OWNER_UNSET, priority |-> ticket.priority,
     due_date |-> ticket.due_date, customer_contact |-> ticket.customer_contact,
     customer |-> ticket.customer, site |-> ticket.site,
     customer_product |-> ticket.customer_product, files |-> FALSE]

\* A variant of line 319 that takes the 'close' shortcut in any status: what
\* C24 has to tell apart from the code.
CloseShortcutAnyStatus(get, ticket) == "close" \in get

\* line 319 and public.py line 129: the 'close' shortcut is taken
CloseShortcut(get, ticket) == "close" \in get /\ ticket.status = RESOLVED_STATUS

\* lines 321-343: the request that view_ticket builds for update_ticket, as
\* lines 584-599 parse it
ShortcutPost(ticket, user, get) ==
    IF "take" \in get
      THEN [UnchangedPost(ticket) EXCEPT !.owner = user]
      ELSE [UnchangedPost(ticket) EXCEPT
              !.owner = IF ticket.assigned_to # None THEN ticket.assigned_to
                                                     ELSE OWNER_UNSET,
              !.new_status = CLOSED_STATUS,
              !.comment = IF "private" \in get
                            THEN <<"Solution acceptee et ticket ferme sans notification">>
                            ELSE <<"Accepted resolution and closed ticket">>,
              !.public = IF "private" \in get THEN PyFalse ELSE PyTrue]

\* view_ticket for a GET request with the keys `get`, lines 293-353, for a
\* logged-in staff user whom lines 301-304 let through
view_ticket(tid, user, get) ==
    /\ has_access_to_queue(user, tickets[tid].queue)
    /\ is_my_ticket(user, tickets[tid])
    /\ users[user].is_staff
    /\ LET ticket == tickets[tid]
           via == [view |-> "view_ticket", get |-> get]
           post == ShortcutPost(ticket, user, get)
       IN  IF "take" \in get \/ CloseShortcut(get, ticket)
             THEN \* line 346
                  update_ticket_via(tid, user, PostStrings(post), post, {}, via)
             ELSE /\ ticketccs' = IF "subscribe" \in get /\ show_subscribe(user, ticket, tid)
                                    THEN subscribe_staff_member_to_ticket(ticketccs, tid,
                                                                          user)
                                    ELSE ticketccs
                  /\ now' = now + 1
                  /\ sent' = <<>>
                  /\ last' = [op |-> "view_ticket", via |-> via, tid |-> tid,
                              user |-> user, saved |-> <<>>, update_fields |-> ALL_FIELDS]
                  /\ UNCHANGED <<tickets, sums, followups, ticketChanges, deps, users,
                                 queue, conf, savedSearches, queues, permissions, inflight>>

\* view_ticket with 'subscribe' in request.GET
view_ticket_subscribe(tid, user) == view_ticket(tid, user, {"subscribe"})

\* ------------------------------------------- public view_ticket
\* public.py lines 107-111: the ticket is the submitter's, or of a TicketCC
\* that can view it, whatever the case of the address
PublicMatch(tid, email) ==
    \/ Upper(tickets[tid].submitter_email) = Upper(email)
    \/ \E i \in 1..Len(ticketccs) :
          /\ ticketccs[i].ticket = tid
          /\ Upper(ticketccs[i].email) = Upper(email)
          /\ ticketccs[i].can_view

\* public.py lines 132-140: the request built for update_ticket, as lines
\* 584-599 parse it; the keys it does not hold take their default
PublicClosePost(ticket) ==
    [comment |-> <<"Submitter accepted resolution and closed ticket">>,
     new_status |-> CLOSED_STATUS, title |-> ticket.title, public |-> "1",
     owner |-> IF ticket.assigned_to # None THEN ticket.assigned_to ELSE OWNER_UNSET,
     priority |-> ticket.priority, due_date |-> None, customer_contact |-> None,
     customer |-> None, site |-> None, customer_product |-> None, files |-> FALSE]

\* public view_ticket, public.py lines 100-160, for a request with a ticket
\* and a non-empty e-mail address; user is None for an anonymous visitor
public_view_ticket(tid, email, user, get) ==
    /\ email # ""
    /\ LET ticket == tickets[tid]
           via == [view |-> "public_view_ticket", get |-> get]
           post == PublicClosePost(ticket)
       IN  IF /\ PublicMatch(tid, email)
              /\ ~(user # None /\ users[user].is_staff)
              /\ CloseShortcut(get, ticket)
             THEN update_ticket_via(tid, None, PostStrings(post), post, {}, via)
             ELSE /\ now' = now + 1
                  /\ sent' = <<>>
                  /\ last' = [op |-> "public_view_ticket", via |-> via, tid |-> tid,
                              user |-> user, saved |-> <<>>, update_fields |-> ALL_FIELDS]
                  /\ UNCHANGED <<tickets, sums, followups, ticketChanges, ticketccs, deps,
                                 users, queue, conf, savedSearches, queues, permissions,
                                 inflight>>

\* --------------------------- update_ticket, two requests at the same time
\* lines 573-617 of the request that process p handles: the ticket is loaded
\* (line 582) and the request is found to change something
update_ticket_load(p, tid, user, post) ==
    /\ inflight[p] = Idle
    /\ post.owner \in Users \cup {0, OWNER_UNSET}
    /\ ~no_changes(tickets[tid], post)
    /\ ~RenderRaises(post.comment)
    /\ inflight' = [inflight EXCEPT ![p] = [pc |-> "loaded", tid |-> tid, user |-> user,
                                             post |-> post, ticket |-> tickets[tid]]]
    /\ UNCHANGED <<tickets, sums, followups, ticketChanges, ticketccs, deps, users,
                   queue, conf, savedSearches, queues, permissions, sent, now, last>>

\* lines 619-888 of the request that process p handles, from the instance it
\* loaded
update_ticket_finish(p) ==
    /\ inflight[p] # Idle
    /\ LET req == inflight[p]
           r == UpdateTicketFrom(req.ticket, req.tid, req.user, req.post)
       IN  /\ tickets' = r.tickets
           /\ sums' = r.sums
           /\ followups' = Append(followups, FollowUpRow(r.followup))
           /\ ticketChanges' = ticketChanges \cup r.rows
           /\ ticketccs' = r.ticketccs
           /\ sent' = r.msgs
           /\ last' = [op |-> "update_ticket", via |-> Direct, tid |-> req.tid,
                       user |-> req.user, raw |-> PostStrings(req.post), post |-> req.post,
                       no_changes |-> FALSE, reassigned |-> r.reassigned, failed |-> {},
                       raised |-> "", saved |-> <<req.tid>>,
                       update_fields |-> ALL_FIELDS]
    /\ inflight' = [inflight EXCEPT ![p] = Idle]
    /\ now' = now + 1
    /\ UNCHANGED <<deps, users, queue, conf, savedSearches, queues, permissions>>

\* ------------------------------------------------------ initial rows
StaffUser(email, on_assign, on_change) ==
    [email |-> email, is_staff |-> TRUE, is_superuser |-> FALSE, perms |-> QueueIds,
     email_on_ticket_assign |-> on_assign, email_on_ticket_change |-> on_change]

NoRequest == [op |-> "none", saved |-> <<>>, update_fields |-> ALL_FIELDS]

\* no saved search, and no queue saved through Queue.save
NoOtherRows ==
    /\ savedSearches = <<>>
    /\ queues = <<>>
    /\ permissions = {}
    /\ NoneInFlight

\* ------------------------------------- Spec: the lifecycle of tickets
\* Ticket 1 is the target of the merge of ticket 2 and depends on ticket 3;
\* tickets 1 and 3 come from the same submitter.
Init ==
    /\ tickets = [i \in TicketIds |->
                    IF i = 2 THEN [NewTicket("m@x") EXCEPT !.merged_to = 1]
                             ELSE NewTicket("s@x")]
    /\ sums = [e \in {"s@x", "m@x"} |-> None]
    /\ followups = <<>>
    /\ ticketChanges = {}
    /\ ticketccs = <<>>
    /\ deps = {<<1, 3>>}
    /\ users = [u \in Users |-> StaffUser("u" \o ToString(u) \o "@x", TRUE, TRUE)]
    /\ queue = [updated_ticket_cc |-> <<>>]
    /\ conf = [auto_subscribe |-> FALSE, per_queue_permission |-> FALSE]
    /\ sent = <<>>
    /\ now = 1
    /\ last = NoRequest
    /\ NoOtherRows

\* update_ticket with a new status and, possibly, a new owner
StatusUpdate ==
    /\ now <= MaxClock
    /\ \E s \in Statuses, o \in {OWNER_UNSET, 2} :
          update_ticket(1, 1, [UnchangedPost(tickets[1]) EXCEPT !.new_status = s,
                                                                 !.owner = o])

MassUpdate ==
    /\ now <= MaxClock
    /\ \E ids \in {{1}, {1, 2}}, action \in {"close", "close_public", "unassign"} :
          /\ action = "close_public" => ids = {1}
          /\ mass_update(1, ids, action, None)

QuickUpdate ==
    /\ now <= MaxClock
    /\ quick_update_ticket(1, "category", "1")

ChooseCustomer ==
    /\ now <= MaxClock
    /\ \E tid \in {2, 3} : choose_customer_for_ticket(tid, 1)

Hold ==
    /\ now <= MaxClock
    /\ \E unhold \in BOOLEAN : hold_ticket(1, 1, unhold)

Next == StatusUpdate \/ MassUpdate \/ QuickUpdate \/ ChooseCustomer \/ Hold

Spec == Init /\ [][Next]_vars

\* ------------------------------ SpecQuick: the AJAX update of a field
MaxQuick == 2

\* quick_update_ticket with or without a field and a value
QuickRequest ==
    /\ now <= MaxQuick
    /\ \E tid \in {1, 2},
          field \in {KeyMissing, "category", "billing", "assigned_to", "status", "nofield"},
          value \in {KeyMissing, "x", "1", "2"} :
             quick_update_ticket(tid, field, value)

NextQuick == QuickRequest

SpecQuick == Init /\ [][NextQuick]_vars

\* ------------------------- SpecChange: the fields one update changes
\* Ticket 1 with or without an owner and a customer; its customer is also the
\* one of the SimpleUserMail of its submitter, as Ticket.save leaves it.
InitChange ==
    /\ \E owner \in {None, 1}, customer \in {None, 1} :
          /\ tickets = [i \in TicketIds |->
                          IF i = 1 THEN [NewTicket("s@x") EXCEPT !.assigned_to = owner,
                                                                 !.customer = customer]
                                   ELSE NewTicket("m@x")]
          /\ sums = [e \in {"s@x", "m@x"} |-> IF e = "s@x" THEN customer ELSE None]
    /\ followups = <<>>
    /\ ticketChanges = {}
    /\ ticketccs = <<>>
    /\ deps = {}
    /\ users = [u \in Users |-> StaffUser("u" \o ToString(u) \o "@x", TRUE, TRUE)]
    /\ queue = [updated_ticket_cc |-> <<>>]
    /\ conf = [auto_subscribe |-> FALSE, per_queue_permission |-> FALSE]
    /\ sent = <<>>
    /\ now = 1
    /\ last = NoRequest
    /\ NoOtherRows

\* the other value of a field: the one a request sends to change it
OtherOf(v, a, b) == IF v = a THEN b ELSE a

\* update_ticket with each tracked field as it is or changed; the contact, the
\* site and the product change together
FieldUpdate ==
    /\ now <= MaxUpdates
    /\ LET t == tickets[1]
       IN  \E title \in {"", t.title, OtherOf(t.title, "t1", "t2")},
              s \in {t.status, OtherOf(t.status, OPEN_STATUS, RESOLVED_STATUS)},
              o \in {OWNER_UNSET, t.assigned_to, OtherOf(t.assigned_to, None, 2)},
              p \in {t.priority, OtherOf(t.priority, DEFAULT_PRIORITY, 4)},
              d \in {t.due_date, OtherOf(t.due_date, None, 5)},
              c \in {t.customer, OtherOf(t.customer, None, 2)},
              links \in BOOLEAN :
                update_ticket(1, 2,
                    [UnchangedPost(t) EXCEPT
                        !.title = title, !.new_status = s, !.owner = o, !.priority = p,
                        !.due_date = d, !.customer = c,
                        !.customer_contact = IF links THEN OtherOf(@, None, 1) ELSE @,
                        !.site = IF links THEN OtherOf(@, None, 1) ELSE @,
                        !.customer_product = IF links THEN OtherOf(@, None, 1) ELSE @])

NextChange == FieldUpdate

SpecChange == InitChange /\ [][NextChange]_vars

\* --------------------------------- SpecNotify: the e-mails of an update
EmailCc(tid, email) ==
    [ticket |-> tid, user |-> None, email |-> email, can_view |-> TRUE, can_update |-> FALSE]
UserCc(tid, user) ==
    [ticket |-> tid, user |-> user, email |-> "", can_view |-> TRUE, can_update |-> TRUE]

InitNotify ==
    /\ \E submitter \in {"", "s@x"}, owner \in {None, 2} :
          tickets = [i \in TicketIds |->
                        IF i = 1 THEN [NewTicket(submitter) EXCEPT !.assigned_to = owner]
                                 ELSE NewTicket("m@x")]
    /\ sums = [e \in {"s@x", "m@x"} |-> None]
    /\ followups = <<>>
    /\ ticketChanges = {}
    /\ ticketccs \in {<<>>, <<EmailCc(1, "c@x"), UserCc(1, 2), EmailCc(1, "s@x")>>}
    /\ deps = {}
    /\ \E on_assign \in BOOLEAN :
          users = [u \in Users |->
                     IF u = 2 THEN StaffUser("u2@x", on_assign, ~on_assign)
                              ELSE StaffUser("u1@x", TRUE, TRUE)]
    /\ \E cc \in {<<>>, <<"q@x">>, <<"s@x", "q@x">>} : queue = [updated_ticket_cc |-> cc]
    /\ conf = [auto_subscribe |-> FALSE, per_queue_permission |-> FALSE]
    /\ sent = <<>>
    /\ now = 1
    /\ last = NoRequest
    /\ NoOtherRows

\* update_ticket by user 1 with a status, an owner, a comment and the public flag
NotifyUpdate ==
    /\ now <= MaxUpdates
    /\ \E s \in {OPEN_STATUS, RESOLVED_STATUS, CLOSED_STATUS}, o \in {OWNER_UNSET, 2},
          comment \in {<<>>, <<"txt">>}, public \in PublicValues \ {PyTrue} :
            update_ticket(1, 1, [UnchangedPost(tickets[1]) EXCEPT
                                    !.new_status = s, !.owner = o,
                                    !.comment = comment, !.public = public])

NextNotify == NotifyUpdate

SpecNotify == InitNotify /\ [][NextNotify]_vars

\* ------------------- SpecDelivery: an update whose deliveries may fail
\* update_ticket by user 1 with a title, a priority, a status and a comment,
\* while no delivery, the first one or every one fails
DeliveryUpdate ==
    /\ now <= MaxUpdates
    /\ LET t == tickets[1]
       IN  \E title \in {t.title, OtherOf(t.title, "t1", "t2")},
              p \in {t.priority, OtherOf(t.priority, DEFAULT_PRIORITY, 4)},
              s \in {t.status, OtherOf(t.status, OPEN_STATUS, RESOLVED_STATUS)},
              comment \in {<<>>, <<"txt">>},
              failed \in {{}, {1}, 1..4} :
                update_ticket_delivery(1, 1,
                    [UnchangedPost(t) EXCEPT !.title = title, !.priority = p,
                                             !.new_status = s, !.comment = comment],
                    failed)

NextDelivery == DeliveryUpdate

SpecDelivery == InitNotify /\ [][NextDelivery]_vars

\* --------------------------- SpecSearch: the loading of saved queries
MaxViews == 1

\* the rows the views of the lists and reports read: three tickets of one
\* queue, created on the days `created` and last saved `open` days later
ReadOnlyRows(created, open) ==
    /\ tickets = [i \in TicketIds |->
                    [NewTicket("s@x") EXCEPT !.created = created[i],
                                             !.modified = created[i] + open[i]]]
    /\ sums = [e \in {"s@x", "m@x"} |-> None]
    /\ followups = <<>>
    /\ ticketChanges = {}
    /\ ticketccs = <<>>
    /\ deps = {}
    /\ users = [u \in Users |-> StaffUser("u" \o ToString(u) \o "@x", TRUE, TRUE)]
    /\ queue = [updated_ticket_cc |-> <<>>]
    /\ conf = [auto_subscribe |-> FALSE, per_queue_permission |-> FALSE]
    /\ queues = <<>>
    /\ permissions = {}
    /\ NoneInFlight
    /\ sent = <<>>
    /\ now = 1
    /\ last = NoRequest

\* two saved searches of user 1, shared or not, with any stored string
InitSearch ==
    /\ ReadOnlyRows([i \in TicketIds |-> 1], [i \in TicketIds |-> 0])
    /\ \E q1, q2 \in StoredQueries, sh1, sh2 \in BOOLEAN :
          savedSearches = <<[user |-> 1, shared |-> sh1, query |-> q1],
                            [user |-> 1, shared |-> sh2, query |-> q2]>>

ListRequest ==
    /\ now <= MaxViews
    /\ \E user \in Users, pk \in {None, 1, 2, 3} : ticket_list(user, pk)

ReportRequest ==
    /\ now <= MaxViews
    /\ \E user \in Users, pk \in {None, 1, 2, 3},
          report \in {"queuemonth", "daysuntilticketclosedbymonth", "nosuchreport"} :
             run_report(user, report, pk)

NextSearch == ListRequest \/ ReportRequest

SpecSearch == InitSearch /\ [][NextSearch]_vars

\* ------------------------------------ SpecReport: the reports by month
\* tickets created in the first or the second month and last saved the same
\* day, the day after or three days later
InitReport ==
    /\ savedSearches = <<>>
    /\ \E created \in [TicketIds -> {1, 1 + DaysPerMonth * TicksPerDay}],
          open \in [TicketIds -> {0, TicksPerDay, 3 * TicksPerDay}] :
             ReadOnlyRows(created, open)

RunReport ==
    /\ now <= MaxViews
    /\ \E report \in {"queuemonth", "daysuntilticketclosedbymonth"} :
          run_report(1, report, None)

NextReport == RunReport

SpecReport == InitReport /\ [][NextReport]_vars

\* ------------------------------------- SpecQueue: the saves of queues
MaxQueueSaves == 3
Slugs == {"a", "b", "c"}

InitQueue ==
    /\ ReadOnlyRows([i \in TicketIds |-> 1], [i \in TicketIds |-> 0])
    /\ savedSearches = <<>>

QueueCreate ==
    /\ now <= MaxQueueSaves
    /\ \E slug \in Slugs : QueueSave(None, slug)

QueueEdit ==
    /\ now <= MaxQueueSaves
    /\ \E id \in 1..Len(queues), slug \in Slugs : QueueSave(id, slug)

NextQueue == QueueCreate \/ QueueEdit

SpecQueue == InitQueue /\ [][NextQueue]_vars

\* ------------------------------------------------------------ claims
\* ------------------- SpecPost: update_ticket and the strings it parses
MaxPosts == 1

\* a request that changes nothing, which names neither status, owner nor
\* priority
UnchangedRaw(ticket) ==
    [comment |-> <<>>, title |-> ticket.title, public |-> PyTrue,
     due_date |-> ticket.due_date, files |-> FALSE,
     new_status |-> KeyMissing, owner |-> KeyMissing, priority |-> KeyMissing,
     customer_contact |-> IdString(ticket.customer_contact),
     customer |-> IdString(ticket.customer), site |-> IdString(ticket.site),
     customer_product |-> IdString(ticket.customer_product)]

\* strings that int() rejects
Malformed == {"abc", "1.5"}

\* the strings a request may hold under a key
RawChoices(k) ==
    CASE k = "new_status" -> Malformed \cup {KeyMissing, "", "1", "3"}
      [] k = "owner" -> Malformed \cup {KeyMissing, "", "-1", "0", "1", "2", "9"}
      [] k = "priority" -> Malformed \cup {KeyMissing, "", "3", "4"}
      [] OTHER -> Malformed \cup {KeyMissing, "", "1"}

\* update_ticket with or without a comment and a new status, and one numeric
\* key with any of its strings
PostRequest ==
    /\ now <= MaxPosts
    /\ \E comment \in {<<>>, <<"txt">>}, s \in {KeyMissing, "3"}, k \in NumericKeys :
          \E v \in RawChoices(k) :
             update_ticket_request(1, 2,
                 [[UnchangedRaw(tickets[1]) EXCEPT !.comment = comment,
                                                   !.new_status = s]
                     EXCEPT ![k] = v])

NextPost == PostRequest

SpecPost == InitChange /\ [][NextPost]_vars

\* ------------------- SpecSubscribe: the subscription of the acting user
MaxSubscribes == 2

\* Ticket 1 with or without a submitter address and an owner, user 1 with or
\* without an e-mail address, and the automatic subscription enabled
InitSubscribe ==
    /\ \E submitter \in {"", "s@x", "u1@x"}, owner \in {None, 1, 2} :
          tickets = [i \in TicketIds |->
                        IF i = 1 THEN [NewTicket(submitter) EXCEPT !.assigned_to = owner]
                                 ELSE NewTicket("m@x")]
    /\ sums = [e \in {"s@x", "m@x"} |-> None]
    /\ followups = <<>>
    /\ ticketChanges = {}
    /\ ticketccs \in {<<>>, <<EmailCc(1, "U1@x")>>, <<UserCc(1, 1)>>}
    /\ deps = {}
    /\ \E email \in {"", "u1@x"} :
          users = [u \in Users |->
                     IF u = 1 THEN StaffUser(email, TRUE, TRUE)
                              ELSE StaffUser("u2@x", TRUE, TRUE)]
    /\ queue = [updated_ticket_cc |-> <<>>]
    /\ conf = [auto_subscribe |-> TRUE, per_queue_permission |-> FALSE]
    /\ sent = <<>>
    /\ now = 1
    /\ last = NoRequest
    /\ NoOtherRows

\* update_ticket by either user, with or without a comment and an owner
SubscribeUpdate ==
    /\ now <= MaxSubscribes
    /\ \E user \in Users, comment \in {<<>>, <<"txt">>}, o \in {OWNER_UNSET, 0, 2} :
          update_ticket(1, user, [UnchangedPost(tickets[1]) EXCEPT !.comment = comment,
                                                                    !.owner = o])

\* view_ticket?subscribe by either user
SubscribeRequest ==
    /\ now <= MaxSubscribes
    /\ \E user \in Users : view_ticket_subscribe(1, user)

NextSubscribe == SubscribeUpdate \/ SubscribeRequest

SpecSubscribe == InitSubscribe /\ [][NextSubscribe]_vars

\* ------------------------- SpecComment: the rendering of the comment
MaxCommentLen == 3
MaxComments == 1

CommentWords == {"txt", BLOCK_TAG_START, BLOCK_TAG_END, "endverbatim", VERBATIM_MARK}

Comments == UNION {[1..n -> CommentWords] : n \in 0..MaxCommentLen}

\* update_ticket by user 1 with any comment
CommentUpdate ==
    /\ now <= MaxComments
    /\ \E comment \in Comments :
          update_ticket(1, 1, [UnchangedPost(tickets[1]) EXCEPT !.comment = comment])

NextComment == CommentUpdate

SpecComment == Init /\ [][NextComment]_vars

\* ------------------ SpecRace: two update_ticket requests on one ticket
MaxRaces == 2

\* the requests in flight
Loaded == {p \in Procs : inflight[p] # Idle}

\* a request of user p that changes the title, the priority or the due date of
\* ticket 1 is loaded
RaceLoad ==
    /\ now + Cardinality(Loaded) <= MaxRaces
    /\ LET t == tickets[1]
       IN  \E p \in Procs,
              title \in {t.title, OtherOf(t.title, "t1", "t2")},
              priority \in {t.priority, OtherOf(t.priority, DEFAULT_PRIORITY, 4)},
              d \in {t.due_date, OtherOf(t.due_date, None, 5)} :
                update_ticket_load(p, 1, p,
                    [UnchangedPost(t) EXCEPT !.title = title, !.priority = priority,
                                             !.due_date = d])

\* a loaded request runs to its end
RaceFinish ==
    /\ now <= MaxRaces
    /\ \E p \in Procs : update_ticket_finish(p)

NextRace == RaceLoad \/ RaceFinish

SpecRace == InitChange /\ [][NextRace]_vars

\* ----------------------- SpecClose: the shortcuts of the two view_ticket
MaxCloses == 2

\* Ticket 1 in any status, with the dates Ticket.save gives a ticket saved in
\* that status, with or without an owner; a TicketCC that can view it
InitClose ==
    /\ \E s \in Statuses, owner \in {None, 2} :
          tickets = [i \in TicketIds |->
                        IF i = 1
                          THEN TicketSavePre([NewTicket("s@x") EXCEPT !.status = s,
                                                                      !.assigned_to = owner],
                                             1)
                          ELSE NewTicket("m@x")]
    /\ sums = [e \in {"s@x", "m@x"} |-> None]
    /\ followups = <<>>
    /\ ticketChanges = {}
    /\ ticketccs = <<EmailCc(1, "c@x")>>
    /\ deps = {}
    /\ users = [u \in Users |-> StaffUser("u" \o ToString(u) \o "@x", TRUE, TRUE)]
    /\ queue = [updated_ticket_cc |-> <<>>]
    /\ conf = [auto_subscribe |-> FALSE, per_queue_permission |-> FALSE]
    /\ sent = <<>>
    /\ now = 1
    /\ last = NoRequest
    /\ NoOtherRows

\* the staff view_ticket with any of its shortcuts
StaffView ==
    /\ now <= MaxCloses
    /\ \E user \in Users,
          get \in {{}, {"close"}, {"close", "private"}, {"take"}, {"take", "close"},
                   {"subscribe"}, {"close", "subscribe"}} :
             view_ticket(1, user, get)

\* the public view_ticket, by a visitor or a logged-in staff user
PublicView ==
    /\ now <= MaxCloses
    /\ \E email \in {"s@x", "c@x", "q@x"}, user \in {None, 1}, get \in {{}, {"close"}} :
          public_view_ticket(1, email, user, get)

NextClose == StaffView \/ PublicView

SpecClose == InitClose /\ [][NextClose]_vars

Range(seq) == {seq[i] : i \in 1..Len(seq)}

\* the tickets the last handler saved, and those it saved with every column
Saved == Range(last.saved)
SavedFull == IF last.update_fields = ALL_FIELDS THEN Saved ELSE {}

\* C1: after a save in which the ticket's status is Resolved, `resolved` is set
\* and `closed` is cleared, whatever statuses the ticket went through.
C1_ResolvedClearsClosed ==
    \A t \in SavedFull :
        tickets[t].status = RESOLVED_STATUS
            => tickets[t].resolved # None /\ tickets[t].closed = None

\* C2: a save of a ticket whose status is Closed or Duplicate sets `closed` if it
\* was unset and leaves a set `resolved` as it was; when the status is the one
\* the ticket already had, the save changes neither date.
C2_ClosedKeepsResolved ==
    [][\A t \in TicketIds :
         (t \in Range(last'.saved) /\ last'.update_fields = ALL_FIELDS
            /\ tickets'[t].status \in {CLOSED_STATUS, DUPLICATE_STATUS})
         => /\ tickets'[t].closed # None
            /\ tickets[t].closed = None => tickets'[t].closed = now
            /\ tickets[t].resolved # None => tickets'[t].resolved = tickets[t].resolved
            /\ tickets'[t].status = tickets[t].status
                 => /\ tickets'[t].resolved = tickets[t].resolved
                    /\ tickets'[t].closed = tickets[t].closed]_vars

\* a Closed ticket, resolved before it was closed, saved again by hold_ticket
C2_Witness ==
    /\ last.op = "hold_ticket"
    /\ tickets[last.tid].status = CLOSED_STATUS
    /\ tickets[last.tid].resolved # None
    /\ tickets[last.tid].closed # None
    /\ tickets[last.tid].closed < tickets[last.tid].modified

\* C3: after a save of a ticket whose status is Open or Reopened, `resolved`
\* and `closed` are both null.
C3_OpenHasNoDates ==
    \A t \in Saved :
        tickets[t].status \in {OPEN_STATUS, REOPENED_STATUS}
            => tickets[t].resolved = None /\ tickets[t].closed = None

\* a ticket saved as Reopened after it had been Resolved and then Closed
C3_Witness ==
    /\ last.op = "update_ticket"
    /\ last.tid \in Saved
    /\ tickets[last.tid].status = REOPENED_STATUS
    /\ \E i \in 1..Len(followups) :
          followups[i].ticket = last.tid /\ followups[i].new_status = RESOLVED_STATUS
    /\ \E i \in 1..Len(followups) :
          followups[i].ticket = last.tid /\ followups[i].new_status = CLOSED_STATUS

\* C9: right after a save of a ticket T, every ticket merged into T has T's
\* assigned_to, category, type, billing, customer, site and customer_product.
C9_MergedFollowTarget ==
    last.saved # <<>> =>
        LET T == last.saved[Len(last.saved)]
        IN  \A m \in TicketIds :
                tickets[m].merged_to = T
                    => \A f \in MergedFields : tickets[m][f] = tickets[T][f]

\* C10: no handler moves a ticket to Resolved while a ticket it depends on is
\* Open or Reopened.
C10_NoResolveWithOpenDependency ==
    [][\A t \in TicketIds :
         (tickets[t].status # RESOLVED_STATUS /\ tickets'[t].status = RESOLVED_STATUS)
            => can_be_resolved(tickets, t)]_vars

\* C4: an update_ticket request with no file, no comment and every field at the
\* ticket's value (the owner omitted or the ticket's own) creates no FollowUp
\* and no TicketChange and leaves the ticket as it was.
C4_NoChangeNoEffect ==
    [][(/\ last'.op = "update_ticket"
        /\ now' = now + 1
        /\ LET t == tickets[last'.tid]
               post == last'.post
           IN  /\ ~post.files
               /\ post.comment = <<>>
               /\ post.new_status = t.status
               /\ post.title = t.title
               /\ post.priority = t.priority
               /\ post.due_date = t.due_date
               /\ post.owner \in {OWNER_UNSET, t.assigned_to}
               /\ post.customer = t.customer
               /\ post.customer_contact = t.customer_contact
               /\ post.site = t.site
               /\ post.customer_product = t.customer_product)
       => /\ followups' = followups
          /\ ticketChanges' = ticketChanges
          /\ tickets' = tickets]_vars

\* a request that names the ticket's owner and changes nothing was handled
C4_Witness ==
    /\ last.op = "update_ticket"
    /\ last.no_changes
    /\ last.post.owner # OWNER_UNSET
    /\ last.post.owner # 0
    /\ last.post.owner = tickets[last.tid].assigned_to
    /\ followups = <<>>

\* the tracked fields with the label and the display of their TicketChange
TrackedFields ==
    {"title", "status", "assigned_to", "priority", "due_date", "customer_contact",
     "customer", "site", "customer_product"}

FieldLabel(f) ==
    CASE f = "title" -> "Title"
      [] f = "status" -> "Status"
      [] f = "assigned_to" -> "Owner"
      [] f = "priority" -> "Priority"
      [] f = "due_date" -> "Due on"
      [] f = "customer_contact" -> "Contact client"
      [] f = "customer" -> "Client"
      [] f = "site" -> "Site"
      [] f = "customer_product" -> "Produit client"

FieldDisplay(f, v) ==
    CASE f = "title" -> v
      [] f = "status" -> StatusDisplay(v)
      [] f = "assigned_to" -> UserOrUnassigned(v)
      [] f = "priority" -> ToString(v)
      [] f = "due_date" -> DueDateStr(v)
      [] f = "customer_contact" -> UserOrUnassigned(v)
      [] f = "customer" -> CustomerOrUnassigned(v)
      [] f = "site" -> SiteOrUnassigned(v)
      [] f = "customer_product" -> ProductOrUnassigned(v)

\* C5: an update that changes N tracked fields creates N TicketChange rows on
\* its follow-up, one per changed field, with the value before the update as
\* old_value and the value persisted by the update as new_value.
C5_OneRowPerChangedField ==
    [][(last'.op = "update_ticket" /\ now' = now + 1 /\ ~last'.no_changes)
       => LET tid  == last'.tid
              rows == {c \in ticketChanges' : c.followup = Len(followups')}
              changed == {f \in TrackedFields : tickets[tid][f] # tickets'[tid][f]}
          IN  /\ Cardinality(rows) = Cardinality(changed)
              /\ \A f \in changed :
                    \E c \in rows :
                        /\ c.field = FieldLabel(f)
                        /\ c.old_value = FieldDisplay(f, tickets[tid][f])
                        /\ c.new_value = FieldDisplay(f, tickets'[tid][f])]_vars

\* C6: within one update_ticket no two messages go to the same address.
C6_NoAddressTwice ==
    last.op = "update_ticket" =>
        \A i, j \in 1..Len(sent) :
            i # j => Delivered(sent[i]) \cap Delivered(sent[j]) = {}

\* C7: the owner's message is sent only to an assignee who is not the acting
\* user, has an e-mail and enabled email_on_ticket_assign (for a reassignment,
\* then with template assigned_owner) or email_on_ticket_change (otherwise).
C7_OwnerPreference ==
    last.op = "update_ticket" =>
        \A i \in 1..Len(sent) :
            sent[i].role = "owner" =>
                LET owner == tickets[last.tid].assigned_to
                IN  /\ owner # None
                    /\ owner # last.user
                    /\ users[owner].email # ""
                    /\ sent[i].recipients = <<users[owner].email>>
                    /\ \A j \in 1..(i - 1) : users[owner].email \notin Delivered(sent[j])
                    /\ IF last.reassigned
                         THEN /\ users[owner].email_on_ticket_assign
                              /\ sent[i].template = "assigned_owner"
                         ELSE users[owner].email_on_ticket_change

\* C8: the submitter and the CCs of the ticket get the update's message exactly
\* when the follow-up is public and has a comment or a new status of Resolved
\* or Closed (the submitter, when the ticket has a submitter e-mail); its
\* template is resolved_, closed_ or updated_, by the follow-up's new status,
\* followed by submitter or cc.
C8_PublicNotification ==
    (last.op = "update_ticket" /\ ~last.no_changes) =>
        LET f == followups[Len(followups)]
            t == tickets[last.tid]
            cond == f.public /\ (f.comment # <<>>
                                 \/ f.new_status \in {RESOLVED_STATUS, CLOSED_STATUS})
            prefix == IF f.new_status = RESOLVED_STATUS THEN "resolved_"
                      ELSE IF f.new_status = CLOSED_STATUS THEN "closed_"
                      ELSE "updated_"
            toSubmitter == {i \in 1..Len(sent) : sent[i].role = "submitter"}
            toCc == {i \in 1..Len(sent) : sent[i].role = "cc"}
            ccs == TicketCcSet(last.tid)
        IN  /\ (toSubmitter # {}) <=> (cond /\ t.submitter_email # "")
            /\ Cardinality(toSubmitter) <= 1
            /\ \A i \in toSubmitter :
                  /\ sent[i].template = prefix \o "submitter"
                  /\ sent[i].recipients = <<t.submitter_email>>
            /\ \A i \in toCc :
                  /\ cond
                  /\ sent[i].template = prefix \o "cc"
                  /\ \E k \in 1..Len(ccs) : sent[i].recipients = <<EmailAddress(ccs[k])>>
            /\ cond => \A k \in 1..Len(ccs) :
                          \E i \in toSubmitter \cup toCc :
                              sent[i].recipients = <<EmailAddress(ccs[k])>>

\* C11: after an update_ticket that found a change, the resolution is the
\* rendered comment if the resulting status is Resolved, or if it is Closed and
\* the ticket had no resolution text; in every other case it is as it was.
C11_ResolutionFromComment ==
    [][(last'.op = "update_ticket" /\ now' = now + 1 /\ ~last'.no_changes)
       => LET tid == last'.tid
              comment == RenderComment(last'.post.comment)
          IN  IF tickets'[tid].status = RESOLVED_STATUS
                THEN tickets'[tid].resolution = comment
              ELSE IF tickets'[tid].status = CLOSED_STATUS
                      /\ tickets[tid].resolution = <<>>
                THEN tickets'[tid].resolution = comment
              ELSE tickets'[tid].resolution = tickets[tid].resolution]_vars

\* C12: quick_update_ticket changes the ticket only for a field of category,
\* type, billing with an integer value; every other request is answered with
\* success false and leaves the persisted tickets as they were.
C12_QuickUpdateAllowList ==
    [][(last'.op = "quick_update_ticket" /\ now' = now + 1)
       => \/ /\ last'.field \in {"category", "type", "billing"}
             /\ last'.value \in IntStrings
          \/ /\ ~last'.success
             /\ tickets' = tickets]_vars

\* the template keys of the specification
TemplateVocabulary ==
    {"newticket_submitter", "newticket_cc", "assigned_owner", "updated_submitter",
     "updated_cc", "updated_owner", "resolved_submitter", "resolved_cc",
     "resolved_owner", "closed_submitter", "closed_cc", "closed_owner"}

\* C13: every template key handed to send_templated_mail is one of the fixed
\* vocabulary, whatever the reassignment, the new status and the public flag.
C13_TemplateVocabulary ==
    \A i \in 1..Len(sent) : sent[i].template \in TemplateVocabulary

\* C14: every send of update_ticket has fail_silently set and, whichever
\* deliveries fail, the update persists its FollowUp, its TicketChange rows
\* and the title, priority, due date, links and resolution it computed.
C14_DeliveryFailureKeepsUpdate ==
    [][(last'.op = "update_ticket" /\ now' = now + 1 /\ ~last'.no_changes)
       => LET tid  == last'.tid
              post == last'.post
              r    == UpdateTicketResult(tid, last'.user, post)
          IN  /\ \A i \in 1..Len(sent') : sent'[i].fail_silently
              /\ sent' = r.msgs
              /\ followups' = Append(followups, FollowUpRow(r.followup))
              /\ ticketChanges' = ticketChanges \cup r.rows
              /\ post.title # "" => tickets'[tid].title = post.title
              /\ tickets'[tid].priority = post.priority
              /\ tickets'[tid].due_date = post.due_date
              /\ tickets'[tid].customer_contact = post.customer_contact
              /\ tickets'[tid].site = post.site
              /\ tickets'[tid].customer_product = post.customer_product
              /\ post.customer # None => tickets'[tid].customer = post.customer
              /\ post.new_status = RESOLVED_STATUS
                    => tickets'[tid].resolution = RenderComment(post.comment)]_vars

\* an update that changed the title and the priority, sent messages and had
\* deliveries fail
C14_Witness ==
    /\ last.op = "update_ticket"
    /\ ~last.no_changes
    /\ last.failed # {}
    /\ Len(sent) >= 2
    /\ \E c \in ticketChanges : c.field = "Title"
    /\ \E c \in ticketChanges : c.field = "Priority"
    /\ tickets[last.tid].title = "t2"
    /\ tickets[last.tid].priority = 4

\* C15: in ticket_list and in run_report, a saved query that the user may
\* load and whose stored string cannot be decoded ends the request in a
\* redirect, without raising and without a filter applied.
C15_UndecodableQueryRedirects ==
    (/\ last.op \in {"ticket_list", "run_report"}
     /\ last.pk \in 1..Len(savedSearches)
     /\ DecodeError(savedSearches[last.pk].query) # "none")
    => last.response = "redirect" /\ ~last.applied

\* C16: in the report daysuntilticketclosedbymonth every cell with a ticket is
\* the sum of the whole days from created to modified of its tickets, divided
\* by their number.
C16_MeanDaysPerCell ==
    (last.op = "run_report" /\ last.report = "daysuntilticketclosedbymonth"
        /\ last.response = "rendered")
    => \A m \in DOMAIN last.table :
          LET cell == {i \in TicketIds : MonthOf(tickets[i].created) = m}
              total == SumOver(cell, [i \in TicketIds |-> DaysOpen(tickets[i])])
          IN  last.table[m][1] * Cardinality(cell) = total * last.table[m][2]

\* C17: the first save of a queue sets permission_name to
\* 'helpdesk.queue_access_<slug>' and creates the Permission of that codename;
\* no later save of a queue, a change of slug included, changes its
\* permission_name or creates a Permission.
C17_PermissionNameSetOnce ==
    [][(last'.op = "Queue.save" /\ now' = now + 1)
       => /\ \A q \in 1..Len(queues) :
                queues'[q].permission_name = queues[q].permission_name
          /\ Len(queues') > Len(queues)
                => LET new == queues'[Len(queues')]
                   IN  /\ new.permission_name = "helpdesk.queue_access_" \o new.slug
                       /\ permissions' = permissions \cup {"queue_access_" \o new.slug}
                       /\ "queue_access_" \o new.slug \notin permissions
          /\ last'.id # None => permissions' = permissions]_vars

\* a queue saved again with another slug than the one of its permission
C17_Witness ==
    /\ last.op = "Queue.save"
    /\ last.id # None
    /\ ~last.raised
    /\ queues[last.id].slug = last.slug
    /\ queues[last.id].permission_name # "helpdesk.queue_access_" \o last.slug
    /\ "queue_access_" \o last.slug \notin permissions

\* C18: once a follow-up has written a ticket's time_before_first_answer, no
\* later save changes it, whatever the duration written.
C18_FirstAnswerTimeKept ==
    [][\A t \in TicketIds :
          tickets[t].time_before_first_answer # NoDuration
             => tickets'[t].time_before_first_answer
                   = tickets[t].time_before_first_answer]_vars

\* C19: after an operation that saves a ticket, the modified date of the
\* ticket's row is the time of that save.
C19_ModifiedIsTimeOfSave ==
    \A t \in Saved : tickets[t].modified = now - 1

\* a request with a string that is no integer under a numeric key, or with an
\* owner id that no user has
MalformedRequest(raw) ==
    \/ \E k \in NumericKeys : raw[k] \notin IntLiterals \cup {KeyMissing, ""}
    \/ raw.owner \in IntLiterals /\ PyInt(raw.owner) \notin Users \cup {OWNER_UNSET, 0}

\* C20: update_ticket with a string that is no integer under new_status, owner,
\* priority, customer, site, customer_contact or customer_product, or with an
\* owner id that no user has, ends in an error and writes no FollowUp, no
\* TicketChange and nothing to the ticket.
C20_MalformedInputNoEffect ==
    [][(last'.op = "update_ticket" /\ MalformedRequest(last'.raw))
         => /\ last'.raised # ""
            /\ followups' = followups
            /\ ticketChanges' = ticketChanges
            /\ tickets' = tickets]_vars

\* an update with a comment, a new status and a customer that is no number
C20_Witness ==
    /\ last.op = "update_ticket"
    /\ last.raw.comment # <<>>
    /\ last.raw.new_status = "3"
    /\ last.raw.customer \in Malformed
    /\ last.raised = "ValueError"

\* the user is the submitter, the owner or a TicketCC of the ticket
Follows(user, tid) ==
    \/ users[user].email # "" /\ tickets[tid].submitter_email = users[user].email
    \/ tickets[tid].assigned_to = user
    \/ \E i \in 1..Len(ticketccs) :
          /\ ticketccs[i].ticket = tid
          /\ \/ ticketccs[i].user = user
             \/ /\ users[user].email # ""
                /\ Upper(ticketccs[i].email) = Upper(users[user].email)

\* C21: with the automatic subscription enabled, after an update_ticket that
\* is not a no-op the acting user is the submitter, the owner or a TicketCC of
\* the ticket, and no user has two TicketCC rows on one ticket.
C21_ActingUserFollows ==
    /\ (last.op = "update_ticket" /\ last.raised = "" /\ ~last.no_changes
           /\ conf.auto_subscribe)
          => Follows(last.user, last.tid)
    /\ \A i, j \in 1..Len(ticketccs) :
          (i # j /\ ticketccs[i].user # None /\ ticketccs[i].ticket = ticketccs[j].ticket)
             => ticketccs[i].user # ticketccs[j].user

\* the comment holds both delimiters
HasDelimiters(comment) ==
    /\ \E i \in 1..Len(comment) : comment[i] = BLOCK_TAG_START
    /\ \E i \in 1..Len(comment) : comment[i] = BLOCK_TAG_END

\* C22: for every comment that holds '{%' and '%}', update_ticket renders it
\* without an error and stores a follow-up whose comment is the submitted one,
\* word for word.
C22_CommentRenderedLiterally ==
    (last.op = "update_ticket" /\ HasDelimiters(last.post.comment))
       => /\ last.raised = ""
          /\ followups # <<>>
          /\ followups[Len(followups)].comment = last.post.comment

\* the TicketChange rows of ticket tid for the tracked field f
RowsOf(tid, f) ==
    {r \in ticketChanges : r.field = FieldLabel(f) /\ followups[r.followup].ticket = tid}

\* C23: once two update_ticket requests on one ticket have ended, whatever
\* their interleaving, every tracked field that one of them changed holds the
\* value written by the last request that changed it, which is the new_value
\* of its last TicketChange row.
C23_LastWriteWinsPerField ==
    Loaded = {} =>
        \A f \in TrackedFields :
           \A r \in RowsOf(1, f) :
              (\A q \in RowsOf(1, f) : q.followup <= r.followup)
                 => FieldDisplay(f, tickets[1][f]) = r.new_value

\* the request `req` went through the 'close' shortcut of a view_ticket, and
\* through no other shortcut of it
ThroughClose(req) ==
    /\ req.op \in {"update_ticket", "view_ticket", "public_view_ticket"}
    /\ req.via.view \in {"view_ticket", "public_view_ticket"}
    /\ "close" \in req.via.get
    /\ req.via.get \cap {"take", "subscribe"} = {}

\* C24: through the 'close' shortcut of the staff and of the public
\* view_ticket a ticket becomes Closed only from Resolved, and a ticket in
\* another status gets no FollowUp and no change.
C24_CloseShortcutOnlyFromResolved ==
    [][ThroughClose(last') =>
          LET tid == last'.tid
          IN  /\ (tickets'[tid].status = CLOSED_STATUS /\ tickets'[tid] # tickets[tid])
                    => tickets[tid].status = RESOLVED_STATUS
              /\ tickets[tid].status # RESOLVED_STATUS
                    => /\ tickets' = tickets
                       /\ followups' = followups
                       /\ ticketChanges' = ticketChanges
                       /\ ticketccs' = ticketccs]_vars

\* the 'close' shortcut of the staff view asked for a ticket that the shortcut
\* of the public view has closed
C24_Witness ==
    /\ ThroughClose(last)
    /\ last.op = "view_ticket"
    /\ tickets[1].status = CLOSED_STATUS
    /\ \E i \in 1..Len(followups) :
          followups[i].new_status = CLOSED_STATUS /\ followups[i].user = None

\* ---------------------- SpecMass: bulk updates under per-queue permission
MaxMass == 2

\* HELPDESK_ENABLE_PER_QUEUE_STAFF_PERMISSION is on.  User 1 is a staff user
\* with the permission of queue 1 only.  Ticket 1 is in queue 1, tickets 2
\* and 3 are in queue 2; ticket 2 may be merged into ticket 1.  Ticket 3 has
\* a follow-up and a CC.
InitMass ==
    /\ \E m \in {None, 1}, o \in {None, 2} :
          tickets = [i \in TicketIds |->
                        IF i = 1 THEN NewTicket("s@x")
                        ELSE IF i = 2
                          THEN [NewTicket("m@x") EXCEPT !.queue = 2, !.merged_to = m,
                                                        !.assigned_to = o]
                          ELSE [NewTicket("s@x") EXCEPT !.queue = 2, !.assigned_to = o]]
    /\ sums = [e \in {"s@x", "m@x"} |-> None]
    /\ followups = <<FollowUpRow([ticket |-> 3, date |-> 1, comment |-> <<>>,
                                  public |-> PyTrue, user |-> 2, new_status |-> None,
                                  title |-> "Comment"])>>
    /\ ticketChanges = {}
    /\ ticketccs = <<EmailCc(3, "c@x")>>
    /\ deps = {}
    /\ users = [u \in Users |->
                  IF u = 1 THEN [StaffUser("u1@x", TRUE, TRUE) EXCEPT !.perms = {1}]
                           ELSE StaffUser("u2@x", TRUE, TRUE)]
    /\ queue = [updated_ticket_cc |-> <<>>]
    /\ conf = [auto_subscribe |-> FALSE, per_queue_permission |-> TRUE]
    /\ sent = <<>>
    /\ now = 1
    /\ last = NoRequest
    /\ NoOtherRows

\* mass_update by user 1 on any selection of the tickets that exist
MassRequest ==
    /\ now <= MaxMass
    /\ \E ids \in SUBSET DOMAIN tickets,
          action \in {"assign", "unassign", "close", "close_public", "delete"} :
             mass_update(1, ids, action, IF action = "assign" THEN 1 ELSE None)

NextMass == MassRequest

SpecMass == InitMass /\ [][NextMass]_vars

\* the tickets of the queues that the user has no access to
NoAccessTickets(user) ==
    {t \in DOMAIN tickets : ~has_access_to_queue(user, tickets[t].queue)}

\* C25: mass_update leaves every ticket of a queue that the requesting user has
\* no access to as it was, with its follow-ups, and deletes none of them
C25_MassUpdateKeepsInaccessible ==
    [][last'.op = "mass_update" =>
         \A t \in NoAccessTickets(last'.user) :
            /\ t \in DOMAIN tickets'
            /\ tickets'[t] = tickets[t]
            /\ SelectSeq(followups', LAMBDA f : f.ticket = t)
                 = SelectSeq(followups, LAMBDA f : f.ticket = t)]_vars

\* ------------- SpecPerm: direct requests under per-queue permission
MaxPerm == 2

\* update_ticket posted by user 1 for a ticket of either queue
PermUpdate ==
    /\ now <= MaxPerm
    /\ \E tid \in {1, 3}, c \in {<<>>, <<"txt">>}, s \in {OPEN_STATUS, RESOLVED_STATUS},
          title \in {"t1", "t2"} :
             update_ticket(tid, 1, [UnchangedPost(tickets[tid]) EXCEPT
                                      !.comment = c, !.new_status = s, !.title = title])

\* quick_update_ticket posted by user 1 for a ticket of either queue
PermQuick ==
    /\ now <= MaxPerm
    /\ \E tid \in {1, 3}, field \in {"category", "billing"} :
          quick_update_ticket(tid, field, "1")

\* hold_ticket asked by user 1, which lines 1310-1313 let through for the
\* tickets of queue 1 only
PermHold ==
    /\ now <= MaxPerm
    /\ \E tid \in {1, 3}, unhold \in BOOLEAN : hold_ticket(tid, 1, unhold)

NextPerm == PermUpdate \/ PermQuick \/ PermHold

SpecPerm == InitMass /\ [][NextPerm]_vars

\* C26: update_ticket and quick_update_ticket, called by user 1 for a ticket of
\* a queue that user 1 has no permission for, leave the ticket as it was and
\* create no FollowUp
C26_DirectUpdateKeepsInaccessible ==
    [][(/\ last'.op \in {"update_ticket", "quick_update_ticket"}
        /\ last'.tid \in NoAccessTickets(1))
          => /\ tickets'[last'.tid] = tickets[last'.tid]
             /\ followups' = followups]_vars

\* ------------------------------------------------ ticket dependencies
\* A variant of lines 1727-1729 that leaves out only the ticket itself
DependsOnQuerysetSelfOnly(D, T, tid) == {x \in DOMAIN T : x # tid}

\* lines 1727-1729: Ticket.objects.exclude(Q(id=ticket.id) |
\* Q(ticketdependency__depends_on=ticket)): every ticket but the ticket itself
\* and the tickets that have a dependency on it
DependsOnQueryset(D, T, tid) ==
    {x \in DOMAIN T : x # tid /\ ~ \E d \in D : d[1] = x /\ d[2] = tid}

\* ticket_dependency_add, lines 1717-1738, for a POST request whose
\* 'depends_on' is a ticket id or is missing (None).  outcome is "denied" for
\* PermissionDenied, "invalid" for a form that is_valid() refuses, "error" for
\* the IntegrityError of unique_together (models.py line 1890) and "saved".
ticket_dependency_add(tid, user, depends_on) ==
    LET ticket == tickets[tid]
        outcome ==
            IF ~has_access_to_queue(user, ticket.queue) \/ ~is_my_ticket(user, ticket)
              THEN "denied"
            ELSE IF depends_on \notin DependsOnQueryset(deps, tickets, tid)
              THEN "invalid"
            ELSE IF <<tid, depends_on>> \in deps
              THEN "error"
              ELSE "saved"
    IN  /\ tid \in DOMAIN tickets
        /\ deps' = IF outcome = "saved" THEN deps \cup {<<tid, depends_on>>} ELSE deps
        /\ last' = [op |-> "ticket_dependency_add", tid |-> tid, user |-> user,
                    depends_on |-> depends_on, outcome |-> outcome,
                    saved |-> <<>>, update_fields |-> ALL_FIELDS]
        /\ sent' = <<>>
        /\ now' = now + 1
        /\ UNCHANGED <<tickets, sums, followups, ticketChanges, ticketccs, users, queue,
                       conf, savedSearches, queues, permissions, inflight>>

\* ticket_dependency_del, lines 1741-1747, for a POST request that names the
\* dependency of the ticket tid on the ticket depends_on
ticket_dependency_del(tid, depends_on) ==
    /\ <<tid, depends_on>> \in deps
    /\ deps' = deps \ {<<tid, depends_on>>}
    /\ last' = [op |-> "ticket_dependency_del", tid |-> tid, depends_on |-> depends_on,
                saved |-> <<>>, update_fields |-> ALL_FIELDS]
    /\ sent' = <<>>
    /\ now' = now + 1
    /\ UNCHANGED <<tickets, sums, followups, ticketChanges, ticketccs, users, queue,
                   conf, savedSearches, queues, permissions, inflight>>

\* ----------------------- SpecDeps: adding and removing dependencies
MaxDeps == 4

\* three tickets of queue 1 and no dependency; per-queue permission is on and
\* user 1 has the permission of queue 1, user 2 has none
InitDeps ==
    /\ tickets = [i \in TicketIds |-> NewTicket("s@x")]
    /\ sums = [e \in {"s@x"} |-> None]
    /\ followups = <<>>
    /\ ticketChanges = {}
    /\ ticketccs = <<>>
    /\ deps = {}
    /\ users = [u \in Users |->
                  IF u = 1 THEN [StaffUser("u1@x", TRUE, TRUE) EXCEPT !.perms = {1}]
                           ELSE [StaffUser("u2@x", TRUE, TRUE) EXCEPT !.perms = {}]]
    /\ queue = [updated_ticket_cc |-> <<>>]
    /\ conf = [auto_subscribe |-> FALSE, per_queue_permission |-> TRUE]
    /\ sent = <<>>
    /\ now = 1
    /\ last = NoRequest
    /\ NoOtherRows

DepAdd ==
    /\ now <= MaxDeps
    /\ \E tid \in TicketIds, user \in Users, d \in TicketIds \cup {None} :
          ticket_dependency_add(tid, user, d)

DepDel ==
    /\ now <= MaxDeps
    /\ \E tid \in TicketIds, d \in TicketIds : ticket_dependency_del(tid, d)

NextDeps == DepAdd \/ DepDel

SpecDeps == InitDeps /\ [][NextDeps]_vars

\* C27: after every request no ticket depends on itself and no two tickets
\* depend on each other, and a request to add a dependency on the ticket itself
\* or on a ticket that already depends on it is refused and creates no row
C27_NoSelfNoMutualDependency ==
    [][/\ \A d \in deps' : d[1] # d[2] /\ <<d[2], d[1]>> \notin deps'
       /\ (/\ last'.op = "ticket_dependency_add"
           /\ \/ last'.depends_on = last'.tid
              \/ <<last'.depends_on, last'.tid>> \in deps)
             => /\ deps' = deps
                /\ last'.outcome \in {"denied", "invalid"}]_vars

\* user 1 asked for a dependency on a ticket that depends on the ticket, and
\* was refused by the form
C27_Witness ==
    /\ last.op = "ticket_dependency_add"
    /\ last.outcome = "invalid"
    /\ last.depends_on # None /\ last.depends_on # last.tid
    /\ <<last.depends_on, last.tid>> \in deps

\* ------------------------------------------------- the CCs of a ticket
\* Python's None given for an e-mail address.  In a TicketCC row the empty
\* string stands for the NULL of the email column, which is what a blank form
\* field and a create() without email store; '' is the e-mail of a user who
\* has none.
EMAIL_NONE == "<None>"

\* ticketcc_set.filter(email=email): email=None is the test IS NULL
FilterEmail(ccs, tid, email) ==
    {i \in 1..Len(ccs) :
        /\ ccs[i].ticket = tid
        /\ ccs[i].email = IF email = EMAIL_NONE THEN "" ELSE email}

\* Ticket.is_email_already_subscribed, models.py lines 887-898
is_email_already_subscribed(ccs, tid, email) ==
    \/ /\ tickets[tid].assigned_to # None
       /\ users[tickets[tid].assigned_to].email = email
    \/ tickets[tid].submitter_email = email
    \/ FilterEmail(ccs, tid, email) # {}

\* Ticket.is_user_already_subscribed, models.py lines 900-911
is_user_already_subscribed(ccs, tid, user) ==
    \/ tickets[tid].assigned_to = user
    \/ tickets[tid].customer_contact = user
    \/ \E i \in 1..Len(ccs) : ccs[i].ticket = tid /\ ccs[i].user = user
    \/ /\ users[user].email # ""
       /\ is_email_already_subscribed(ccs, tid, users[user].email)

\* ticketcc.email_address as line 928 passes it on: None for a CC that has
\* neither a user with an e-mail nor an address
email_address(cc) == IF EmailAddress(cc) = "" THEN EMAIL_NONE ELSE EmailAddress(cc)

\* lines 924-931: the branch that add_to_ticketcc_if_not_in takes
AddBranch(ccs, tid, email, user, cc) ==
    IF user # None /\ ~is_user_already_subscribed(ccs, tid, user) THEN "user"
    ELSE IF ~is_email_already_subscribed(ccs, tid, email) THEN "email"
    ELSE IF cc # None /\ ~is_email_already_subscribed(ccs, tid, email_address(ccs[cc]))
      THEN "move"
    ELSE "none"

\* Ticket.add_to_ticketcc_if_not_in(email, user, ticketcc), models.py lines
\* 913-931, for arguments that pass the assertion of line 922.  cc is the place
\* of the TicketCC in ticketccs, or None.
add_to_ticketcc_if_not_in(tid, email, user, cc) ==
    LET branch == AddBranch(ticketccs, tid, email, user, cc)
    IN  /\ email # EMAIL_NONE \/ user # None \/ cc # None
        /\ cc # None => cc \in 1..Len(ticketccs)
        /\ ticketccs' =
              CASE branch = "user" ->
                     Append(ticketccs, [ticket |-> tid, user |-> user, email |-> "",
                                        can_view |-> TRUE, can_update |-> TRUE])
                [] branch = "email" ->
                     Append(ticketccs, [ticket |-> tid, user |-> None,
                                        email |-> IF email = EMAIL_NONE THEN "" ELSE email,
                                        can_view |-> TRUE, can_update |-> FALSE])
                [] branch = "move" -> [ticketccs EXCEPT ![cc].ticket = tid]
                [] OTHER -> ticketccs
        /\ last' = [op |-> "add_to_ticketcc_if_not_in", tid |-> tid, email |-> email,
                    user |-> user, cc |-> cc, branch |-> branch,
                    saved |-> <<>>, update_fields |-> ALL_FIELDS]
        /\ sent' = <<>>
        /\ now' = now + 1
        /\ UNCHANGED <<tickets, sums, followups, ticketChanges, deps, users, queue,
                       conf, savedSearches, queues, permissions, inflight>>

\* forms.EmailField of TicketCCForm: the addresses that validate
ValidEmails == {"c@x", "s@x", "u1@x", "u2@x"}

\* ticket_cc_add, lines 1672-1703, for a POST request of a staff user.  email
\* is the posted string, '' when the field is blank; user is the chosen user
\* or None.  TicketCCForm.clean is forms.py lines 672-677.
ticket_cc_add(tid, requester, user, email, can_view, can_update) ==
    LET ticket == tickets[tid]
        denied == ~has_access_to_queue(requester, ticket.queue)
                  \/ ~is_my_ticket(requester, ticket)
        valid == /\ email = "" \/ email \in ValidEmails
                 /\ ~(email = "" /\ user = None)
        user_twice == /\ user # None
                      /\ \E i \in 1..Len(ticketccs) :
                            ticketccs[i].ticket = tid /\ ticketccs[i].user = user
        email_twice == email # "" /\ FilterEmail(ticketccs, tid, email) # {}
        twice == user_twice \/ email_twice
        outcome == IF denied THEN "denied"
                   ELSE IF ~valid THEN "invalid"
                   ELSE IF twice THEN "twice"
                   ELSE "saved"
    IN  /\ ticketccs' = IF outcome = "saved"
                          THEN Append(ticketccs, [ticket |-> tid, user |-> user,
                                                  email |-> email, can_view |-> can_view,
                                                  can_update |-> can_update])
                          ELSE ticketccs
        /\ last' = [op |-> "ticket_cc_add", tid |-> tid, user |-> requester,
                    outcome |-> outcome, saved |-> <<>>, update_fields |-> ALL_FIELDS]
        /\ sent' = <<>>
        /\ now' = now + 1
        /\ UNCHANGED <<tickets, sums, followups, ticketChanges, deps, users, queue,
                       conf, savedSearches, queues, permissions, inflight>>

\* ------------------------------- SpecCc: the ways to a TicketCC row
MaxCc == 2

\* Ticket 1 has a submitter and, possibly, user 2 as its owner; ticket 2 has
\* the CC of the address c@x.
InitCc ==
    /\ \E o \in {None, 2} :
          tickets = [i \in TicketIds |->
                        IF i = 1 THEN [NewTicket("s@x") EXCEPT !.assigned_to = o]
                                 ELSE NewTicket("m@x")]
    /\ sums = [e \in {"s@x", "m@x"} |-> None]
    /\ followups = <<>>
    /\ ticketChanges = {}
    /\ ticketccs = <<EmailCc(2, "c@x")>>
    /\ deps = {}
    /\ users = [u \in Users |-> StaffUser("u" \o ToString(u) \o "@x", TRUE, TRUE)]
    /\ queue = [updated_ticket_cc |-> <<>>]
    /\ conf = [auto_subscribe |-> FALSE, per_queue_permission |-> FALSE]
    /\ sent = <<>>
    /\ now = 1
    /\ last = NoRequest
    /\ NoOtherRows

CcAdd ==
    /\ now <= MaxCc
    /\ \E user \in {None, 2}, email \in {"", "c@x", "bad"}, can_view \in BOOLEAN :
          ticket_cc_add(1, 1, user, email, can_view, FALSE)

CcSubscribe ==
    /\ now <= MaxCc
    /\ \E user \in Users : view_ticket_subscribe(1, user)

CcAddIfNotIn ==
    /\ now <= MaxCc
    /\ \E email \in {EMAIL_NONE, "c@x", "s@x"}, user \in {None, 1, 2},
          cc \in {None} \cup (1..Len(ticketccs)) :
             add_to_ticketcc_if_not_in(1, email, user, cc)

NextCc == CcAdd \/ CcSubscribe \/ CcAddIfNotIn

SpecCc == InitCc /\ [][NextCc]_vars

\* every identity that the call names is attached to the ticket already
GivenAttached(ccs, tid, email, user, cc) ==
    /\ email # EMAIL_NONE => is_email_already_subscribed(ccs, tid, email)
    /\ user # None => is_user_already_subscribed(ccs, tid, user)
    /\ cc # None => is_email_already_subscribed(ccs, tid, email_address(ccs[cc]))

\* C29: add_to_ticketcc_if_not_in changes the TicketCC rows only when an
\* identity it is given is not attached to the ticket yet, and, given only a
\* ticketcc whose address is not attached, it moves that ticketcc to the ticket
\* and creates no row
C29_AddsOrMovesOnlyWhenNotAttached ==
    [][last'.op = "add_to_ticketcc_if_not_in" =>
         /\ GivenAttached(ticketccs, last'.tid, last'.email, last'.user, last'.cc)
               => ticketccs' = ticketccs
         /\ (/\ last'.email = EMAIL_NONE /\ last'.user = None /\ last'.cc # None
             /\ ~is_email_already_subscribed(ticketccs, last'.tid,
                                              email_address(ticketccs[last'.cc])))
               => ticketccs' = [ticketccs EXCEPT ![last'.cc].ticket = last'.tid]]_vars

\* C30: every TicketCC row has a user or a non-empty e-mail address
C30_EveryCcIdentifiesRecipient ==
    \A i \in 1..Len(ticketccs) : ticketccs[i].user # None \/ ticketccs[i].email # ""

=============================================================================
